---- MODULE Spec2Model ----
(***************************************************************************)
(* A model of the strategy test harness: the FrameworkStub                 *)
(* (tests/framework_stub.py), the TestDataGenerator                        *)
(* (tests/test_data_generator.py), the robustness executor                 *)
(* (tests/robustness_tests.py), the CodeQualityScorer                      *)
(* (tests/code_quality_scorer.py) and the runner                           *)
(* (tests/test_generated_strategy.py).                                     *)
(*                                                                         *)
(* Python values are modelled as records tagged by t: None, NaN, +inf,     *)
(* -inf and finite numbers m * 10^e.  A Python dict is a function whose    *)
(* DOMAIN is the set of keys present.  Scores are kept in hundredths of a  *)
(* point (an integer), a rate as a numerator/denominator pair.             *)
(***************************************************************************)
EXTENDS Integers, Sequences, FiniteSets, TLC

VARIABLES
    stub,          \* the single FrameworkStub instance (_stub_instance)
    last_set,      \* history: what each setter key was last set to since the last reset()
    last_op,       \* history: the last operation applied to the Stub
    nops,          \* number of Stub operations made by the Stub driver
    rng,           \* the state of the process-wide pseudorandom source
    pc,            \* where the runner / executor stands
    files,         \* find_strategy_files(): the discovered files, sorted
    file_idx,      \* the file the loop of run_all_tests is at
    strategy_class,\* the class load_strategy_class returned for the current file
    ex,            \* the locals of test_strategy_robustness and its phases
    trace,         \* history: the setups and handle_data invocations of the current unit
    test_result,   \* the dict test_strategy_robustness returned
    scores,        \* the ScoreRecord of the current unit
    results,       \* run_all_tests: results
    csv_rows,      \* run_all_tests: csv_rows
    model_results, \* run_all_tests: model_results
    total_passed,
    total_failed,
    exit_status,   \* the process exit status, None while running
    sc_class,      \* scorer driver: the strategy class given to score_strategy
    sc_source,     \* scorer driver: the source text given to score_strategy
    sc_result,     \* scorer driver: the robustness result given to score_strategy
    sc_scores,     \* scorer driver: the ScoreRecord returned
    gen,           \* generator driver: the loop of get_boundary_test_cases and the
                   \* calls of get_random_test_cases made so far
    ld,            \* loader driver: the file given to load_strategy_class and
                   \* what it returned
    stub_module,   \* the module the loader and the executor import the Stub from
    report_lines   \* run_all_tests: the summary written to test_results.txt

stubVars == <<stub, last_set, last_op, nops>>
execVars == <<rng, pc, strategy_class, ex, trace, test_result, scores>>
runVars == <<files, file_idx, results, csv_rows, model_results,
             total_passed, total_failed, exit_status>>
scoreVars == <<sc_class, sc_source, sc_result, sc_scores>>
vars == <<stubVars, execVars, runVars, scoreVars, gen, ld, stub_module, report_lines>>

---------------------------------------------------------------------------
(* Python values *)

None == [t |-> "None"]
NaN == [t |-> "nan"]
PosInf == [t |-> "inf"]
NegInf == [t |-> "-inf"]
Num(m, e) == [t |-> "num", m |-> m, e |-> e]
IntV(n) == Num(n, 0)

\* a dict: d[k] = v
DictSet(d, k, v) == [x \in (DOMAIN d) \cup {k} |-> IF x = k THEN v ELSE d[x]]
\* d.get(k, default)
DictGet(d, k, default) == IF k \in DOMAIN d THEN d[k] ELSE default
EmptyDict == << >>

---------------------------------------------------------------------------
(* FrameworkStub *)

DefaultSymbol == "TEST_SYMBOL"
DefaultPrice == IntV(100)
DefaultMa == IntV(100)
DefaultRsi == IntV(50)

\* FrameworkStub.__init__
NewStub ==
    [alerts |-> << >>,
     orders |-> << >>,
     declared_strategy_type |-> None,
     declared_symbols |-> << >>,
     variables |-> EmptyDict,
     price_data |-> EmptyDict,
     position_data |-> EmptyDict,
     indicator_data |-> EmptyDict,
     default_symbol |-> DefaultSymbol,
     default_price |-> DefaultPrice]

\* a reset() that forgets the indicator table
ResetKeepsIndicators(st) ==
    [st EXCEPT !.alerts = << >>, !.orders = << >>,
               !.declared_strategy_type = None, !.declared_symbols = << >>,
               !.variables = EmptyDict, !.price_data = EmptyDict,
               !.position_data = EmptyDict]

\* FrameworkStub.reset
reset(st) ==
    [st EXCEPT !.alerts = << >>, !.orders = << >>,
               !.declared_strategy_type = None, !.declared_symbols = << >>,
               !.variables = EmptyDict, !.price_data = EmptyDict,
               !.position_data = EmptyDict, !.indicator_data = EmptyDict]

\* AlgoStrategyType.SECURITY
SECURITY == [t |-> "AlgoStrategyType", v |-> "SECURITY"]

declare_strategy_type(st, strategy_type) ==
    [st EXCEPT !.declared_strategy_type = strategy_type]

InSeq(x, s) == \E i \in 1..Len(s) : s[i] = x

\* returns the default symbol; records it once
declare_trig_symbol(st) ==
    IF InSeq(st.default_symbol, st.declared_symbols)
    THEN st
    ELSE [st EXCEPT !.declared_symbols = Append(@, st.default_symbol)]

show_variable(default_value, var_type) == default_value

current_price(st, symbol) ==
    IF symbol \in DOMAIN st.price_data THEN st.price_data[symbol] ELSE st.default_price

set_price(st, symbol, price) ==
    [st EXCEPT !.price_data = DictSet(@, symbol, price)]

\* f"{symbol}_ma_{period}_{bar_type.value}"
ma_key(symbol, period, bar_type) ==
    symbol \o "_ma_" \o ToString(period) \o "_" \o bar_type

\* f"{symbol}_rsi_{period}_{bar_type.value}"
rsi_key(symbol, period, bar_type) ==
    symbol \o "_rsi_" \o ToString(period) \o "_" \o bar_type

ma(st, symbol, period, bar_type) ==
    LET key == ma_key(symbol, period, bar_type)
    IN  IF key \in DOMAIN st.indicator_data
        THEN DictGet(st.indicator_data[key], "value", None)
        ELSE DefaultMa

\* the inner dict of an indicator key after ["value"] = value
SetIndicator(st, key, value) ==
    LET inner == IF key \in DOMAIN st.indicator_data
                 THEN st.indicator_data[key] ELSE EmptyDict
    IN  [st EXCEPT !.indicator_data = DictSet(@, key, DictSet(inner, "value", value))]

set_ma(st, symbol, period, bar_type, value) ==
    SetIndicator(st, ma_key(symbol, period, bar_type), value)

rsi(st, symbol, period, bar_type) ==
    LET key == rsi_key(symbol, period, bar_type)
    IN  IF key \in DOMAIN st.indicator_data
        THEN DictGet(st.indicator_data[key], "value", None)
        ELSE DefaultRsi

\* a set_rsi that clamps the value into [0, 100]
SetRsiClamped(st, symbol, period, bar_type, value) ==
    SetIndicator(st, rsi_key(symbol, period, bar_type),
                 IF value.t = "num" /\ value.e = 0 /\ value.m > 100 THEN IntV(100)
                 ELSE IF value.t = "num" /\ value.m < 0 THEN IntV(0)
                 ELSE value)

set_rsi(st, symbol, period, bar_type, value) ==
    SetIndicator(st, rsi_key(symbol, period, bar_type), value)

position_holding_qty(st, symbol) == DictGet(st.position_data, symbol, IntV(0))

set_position(st, symbol, qty) ==
    [st EXCEPT !.position_data = DictSet(@, symbol, qty)]

\* price * 0.999, price * 1.001: a float times a number of thousandths
Times(v, thousandths) ==
    IF v.t = "num" THEN Num(v.m * thousandths, v.e - 3) ELSE v

\* a bid that is None for a symbol whose price was never set
BidAbsentWhenUnset(st, symbol) ==
    IF symbol \in DOMAIN st.price_data /\ st.price_data[symbol] /= None
    THEN Times(st.price_data[symbol], 999) ELSE None

bid(st, symbol) ==
    LET price == current_price(st, symbol)
    IN  IF price /= None THEN Times(price, 999) ELSE None

ask(st, symbol) ==
    LET price == current_price(st, symbol)
    IN  IF price /= None THEN Times(price, 1001) ELSE None

max_qty_to_buy_on_margin(st, symbol, price, order_type) == IntV(10000)

place_limit(st, symbol, price, qty, side, time_in_force, session) ==
    [st EXCEPT !.orders = Append(@,
        [symbol |-> symbol, price |-> price, qty |-> qty, side |-> side,
         time_in_force |-> time_in_force, order_trade_session_type |-> session])]

alert(st, content) == [st EXCEPT !.alerts = Append(@, content)]

---------------------------------------------------------------------------
(* The pseudorandom source: Python's random module, modelled as a linear   *)
(* congruential generator over 0..RngModulus-1.  A draw advances the state *)
(* and returns it; random() is state / RngModulus.                         *)

RngModulus == 1024
RngMultiplier == 165
RngIncrement == 421

\* random.seed(seed)
RngSeed(seed) == seed % RngModulus
\* the state after one draw
RngNext(x) == (RngMultiplier * x + RngIncrement) % RngModulus
\* random.random() < num/den, for the draw x
RandomBelow(x, num, den) == x * den < num * RngModulus
\* random.choice(options), for the draw x
RandomChoice(x, options) == options[((x * Len(options)) \div RngModulus) + 1]

---------------------------------------------------------------------------
(* TestDataGenerator *)

\* isinstance of a finite float
IsFinite(v) == v.t = "num"
\* v < 0 for a finite v
LtZero(v) == v.m < 0
\* v > 100 for a finite v = m * 10^e (mantissas of the model stay below 10^6)
GtHundred(v) ==
    /\ v.m > 0
    /\ CASE v.e >= 3 -> TRUE
         [] v.e = 2 -> v.m > 1
         [] v.e = 1 -> v.m > 10
         [] v.e = 0 -> v.m > 100
         [] v.e = -1 -> v.m > 1000
         [] v.e = -2 -> v.m > 10000
         [] OTHER -> FALSE

\* str() of a value, as an f-string renders it
PyStr(v) ==
    CASE v.t = "None" -> "None"
      [] v.t = "nan" -> "nan"
      [] v.t = "inf" -> "inf"
      [] v.t = "-inf" -> "-inf"
      [] v.t = "num" /\ v.e = 0 -> ToString(v.m) \o ".0"
      [] v.t = "num" /\ v.e = 10 -> ToString(v.m) \o "0000000000.0"
      [] v.t = "num" /\ v.e = -10 -> ToString(v.m) \o "e-10"
      [] OTHER -> ToString(v.m) \o "e" \o ToString(v.e)

boundary_values ==
    << None, NaN, PosInf, NegInf, Num(0, 0), Num(-1, 0),
       Num(1, 10), Num(-1, 10), Num(1, -10), Num(-1, -10) >>

TestCase(name, price, ma_val, rsi_val) ==
    [name |-> name, price |-> price, ma |-> ma_val, rsi |-> rsi_val]

\* a "continue" that forgets the negative RSI values
SkipOnlyAboveHundred(rsi_val) ==
    /\ rsi_val /= None
    /\ rsi_val.t /= "nan"
    /\ rsi_val.t \notin {"inf", "-inf"}
    /\ GtHundred(rsi_val)

\* the "continue" of the cross product: a finite RSI outside [0, 100]
SkipCombination(rsi_val) ==
    /\ rsi_val /= None
    /\ rsi_val.t /= "nan"
    /\ rsi_val.t \notin {"inf", "-inf"}
    /\ (LtZero(rsi_val) \/ GtHundred(rsi_val))

\* the i-th combination of the three nested loops over boundary_values
Combination(i) ==
    LET n == Len(boundary_values)
        price == boundary_values[((i - 1) \div (n * n)) + 1]
        ma_val == boundary_values[(((i - 1) \div n) % n) + 1]
        rsi_val == boundary_values[((i - 1) % n) + 1]
    IN  TestCase("price=" \o PyStr(price) \o ", ma=" \o PyStr(ma_val)
                     \o ", rsi=" \o PyStr(rsi_val),
                 price, ma_val, rsi_val)

\* the cross product price x ma x rsi, in loop order
BoundaryCombinations ==
    LET n == Len(boundary_values)
        keep(c) == ~SkipCombination(c.rsi)
    IN  SelectSeq([i \in 1..(n * n * n) |-> Combination(i)], keep)

common_cases ==
    << TestCase("normal_values", IntV(100), IntV(95), IntV(50)),
       TestCase("price_none", None, IntV(95), IntV(50)),
       TestCase("ma_none", IntV(100), None, IntV(50)),
       TestCase("rsi_none", IntV(100), IntV(95), None),
       TestCase("all_none", None, None, None),
       TestCase("price_nan", NaN, IntV(95), IntV(50)),
       TestCase("price_inf", PosInf, IntV(95), IntV(50)),
       TestCase("price_neg_inf", NegInf, IntV(95), IntV(50)),
       TestCase("price_zero", IntV(0), IntV(95), IntV(50)),
       TestCase("price_negative", IntV(-10), IntV(95), IntV(50)),
       TestCase("ma_nan", IntV(100), NaN, IntV(50)),
       TestCase("rsi_nan", IntV(100), IntV(95), NaN),
       TestCase("rsi_boundary_0", IntV(100), IntV(95), IntV(0)),
       TestCase("rsi_boundary_100", IntV(100), IntV(95), IntV(100)),
       TestCase("rsi_negative", IntV(100), IntV(95), IntV(-10)),
       TestCase("rsi_over_100", IntV(100), IntV(95), IntV(150)) >>

get_boundary_test_cases == BoundaryCombinations \o common_cases

\* one iteration of the loop of get_random_test_cases: eight draws
\* (numbers are in hundredths: Num(m, -2))
RandomCase(i, x0) ==
    LET x1 == RngNext(x0)
        x2 == RngNext(x1)
        x3 == RngNext(x2)
        x4 == RngNext(x3)
        x5 == RngNext(x4)
        x6 == RngNext(x5)
        x7 == RngNext(x6)
        x8 == RngNext(x7)
        price0 == 1000 + ((99000 * x1) \div RngModulus)
        ma0 == (price0 * (800 + ((400 * x2) \div RngModulus))) \div 1000
        rsi0 == (10000 * x3) \div RngModulus
        price1 == IF RandomBelow(x4, 1, 10) THEN None ELSE Num(price0, -2)
        ma1 == IF RandomBelow(x5, 1, 10) THEN None ELSE Num(ma0, -2)
        rsi1 == IF RandomBelow(x6, 1, 10) THEN None ELSE Num(rsi0, -2)
        price2 == IF RandomBelow(x7, 1, 20) THEN NaN ELSE price1
        ma2 == IF RandomBelow(x8, 1, 20) THEN NaN ELSE ma1
    IN  [case |-> TestCase("random_case_" \o ToString(i), price2, ma2, rsi1),
         rng |-> x8]

RECURSIVE RandomCasesFrom(_, _, _)
RandomCasesFrom(i, count, x) ==
    IF i > count THEN [cases |-> << >>, rng |-> x]
    ELSE LET one == RandomCase(i, x)
             rest == RandomCasesFrom(i + 1, count, one.rng)
         IN  [cases |-> <<one.case>> \o rest.cases, rng |-> rest.rng]

\* a get_random_test_cases that never seeds the source
GetRandomCasesUnseeded(count, seed, x) == RandomCasesFrom(1, count, x)

\* get_random_test_cases(count, seed) from the source state x: the cases and the
\* state of the source afterwards (seed = None leaves the source as it is)
get_random_test_cases(count, seed, x) ==
    RandomCasesFrom(1, count, IF seed /= None THEN RngSeed(seed.m) ELSE x)

\* an application that leaves out the moving average of period 1
AppliedMaPeriodsWithoutOne == <<100, 50, 20, 200>>

\* the periods apply_test_data_to_stub sets the moving average for, in order
AppliedMaPeriods == <<100, 50, 20, 200, 1>>

RECURSIVE ApplyMa(_, _, _, _)
ApplyMa(st, symbol, i, value) ==
    IF i > Len(AppliedMaPeriods) THEN st
    ELSE ApplyMa(set_ma(st, symbol, AppliedMaPeriods[i], "D1", value), symbol, i + 1, value)

apply_test_data_to_stub(st, symbol, test_case) ==
    LET s1 == set_price(st, symbol, test_case.price)
        s2 == ApplyMa(s1, symbol, 1, test_case.ma)
    IN  set_rsi(s2, symbol, 14, "D1", test_case.rsi)

---------------------------------------------------------------------------
(* CodeQualityScorer.  A score is an integer number of hundredths of a     *)
(* point, so round(x, 2) is a rounding to an integer.  A source text is    *)
(* the record of what the walks over its syntax tree count (the function   *)
(* members of the strategy class come with the class, field methods):      *)
(*   parse_ok       ast.parse succeeds                                     *)
(*   class_defs     ClassDef nodes                                         *)
(*   class_docs     ClassDef nodes with a docstring                        *)
(*   method_docs    FunctionDef nodes with a docstring                     *)
(*   ifs, loops, try_blocks    If, While/For and Try nodes                 *)
(*   boolops        the arity of each BoolOp node                          *)
(*   none_checks    comparators that are the constant None                 *)
(*   magic_numbers  numeric constants outside [0, 1, -1, 2, 100]           *)
(*   underscore     "_" occurs in the text                                 *)
(*   returns        for each Return node, the number of If nodes around it *)

Min(a, b) == IF a <= b THEN a ELSE b
Max(a, b) == IF a >= b THEN a ELSE b

RECURSIVE SumSeq(_)
SumSeq(q) == IF q = << >> THEN 0 ELSE Head(q) + SumSeq(Tail(q))

\* round(num / den) to the nearest integer, ties to even (num >= 0, den > 0)
RoundDiv(num, den) ==
    LET q == num \div den
        r == num % den
    IN  IF 2 * r < den THEN q
        ELSE IF 2 * r > den THEN q + 1
        ELSE IF q % 2 = 0 THEN q ELSE q + 1

\* min(pass_count / test_count, 1.0) as a fraction, 0.0 when nothing was counted
PassRate(report) ==
    IF report.test_count > 0
    THEN IF report.pass_count >= report.test_count
         THEN [num |-> 1, den |-> 1]
         ELSE [num |-> report.pass_count, den |-> report.test_count]
    ELSE [num |-> 0, den |-> 1]

\* a robustness score that is not zeroed by a failed initialize
RobustnessIgnoringInit(robustness_result) ==
    IF robustness_result.boundary_tests = None THEN 0
    ELSE LET b == PassRate(robustness_result.boundary_tests)
             r == PassRate(robustness_result.random_tests)
         IN  Min(RoundDiv(6000 * b.num * r.den + 4000 * r.num * b.den, b.den * r.den),
                 10000)

\* a robustness score whose pass rates are not capped at 1.0
RobustnessUncapped(robustness_result) ==
    IF ~robustness_result.initialize_passed THEN 0
    ELSE LET bt == robustness_result.boundary_tests
             rt == robustness_result.random_tests
             b == IF bt.test_count > 0 THEN [num |-> bt.pass_count, den |-> bt.test_count]
                  ELSE [num |-> 0, den |-> 1]
             r == IF rt.test_count > 0 THEN [num |-> rt.pass_count, den |-> rt.test_count]
                  ELSE [num |-> 0, den |-> 1]
         IN  RoundDiv(6000 * b.num * r.den + 4000 * r.num * b.den, b.den * r.den)

_calculate_robustness_score(robustness_result) ==
    IF ~robustness_result.initialize_passed THEN 0
    ELSE LET b == PassRate(robustness_result.boundary_tests)
             r == PassRate(robustness_result.random_tests)
         IN  Min(RoundDiv(6000 * b.num * r.den + 4000 * r.num * b.den, b.den * r.den),
                 10000)

\* a structure score without the bonus for a class definition
StructureWithoutClassBonus(class, source) ==
    LET required == (IF "initialize" \in class.methods THEN 1500 ELSE 0)
                    + (IF "handle_data" \in class.methods THEN 1500 ELSE 0)
        optional == IF "custom_indicator" \in class.methods THEN 1000 ELSE 0
    IN  Min(5000 + required + optional, 10000)

_score_structure(class, source) ==
    LET required == (IF "initialize" \in class.methods THEN 1500 ELSE 0)
                    + (IF "handle_data" \in class.methods THEN 1500 ELSE 0)
        optional == IF "custom_indicator" \in class.methods THEN 1000 ELSE 0
        class_def == IF source.class_defs > 0 THEN 1000 ELSE 0
    IN  Min(5000 + required + optional + class_def, 10000)

\* an error-handling score without its caps
ErrorHandlingUncapped(source) ==
    3000 + source.try_blocks * 1500 + source.none_checks * 300

_score_error_handling(source) ==
    Min(3000 + Min(source.try_blocks * 1500, 4000) + Min(source.none_checks * 300, 3000),
        10000)

_score_documentation(source) ==
    Min((IF source.class_docs > 0 THEN 3000 ELSE 0)
        + Min(source.method_docs * 1000, 7000), 10000)

\* len(node.values) - 1, summed over the BoolOp nodes
BoolOpIndicators(boolops) == SumSeq([i \in 1..Len(boolops) |-> boolops[i] - 1])

_score_complexity(source) ==
    LET complexity_indicators ==
            source.ifs + source.loops + source.try_blocks + BoolOpIndicators(source.boolops)
    IN  IF complexity_indicators <= 5 THEN 10000
        ELSE IF complexity_indicators <= 10 THEN 8000
        ELSE IF complexity_indicators <= 15 THEN 6000
        ELSE IF complexity_indicators <= 20 THEN 4000
        ELSE 2000

\* for each If node, the Return nodes in its subtree: a Return counts once per If around it
EarlyReturns(returns) == SumSeq(returns)

_score_best_practices(source) ==
    LET s1 == 5000 - Min(source.magic_numbers * 200, 2000)
        s2 == s1 + (IF source.underscore THEN 1000 ELSE 0)
        s3 == s2 + (IF Len(source.returns) > 0 THEN 1000 ELSE 0)
        s4 == s3 + Min(EarlyReturns(source.returns) * 500, 2000)
    IN  Max(0, Min(s4, 10000))

\* the weighted sum of the five sub-scores, rounded to 2 decimals
QualityOverall(q) ==
    RoundDiv(q.structure * 20 + q.error_handling * 25 + q.documentation * 15
                 + q.complexity * 15 + q.best_practices * 25, 100)

\* a quality report that scores the text although ast.parse rejected it
QualityIgnoringParseFailure(class, source) ==
    LET q == [structure |-> _score_structure(class, source),
              error_handling |-> _score_error_handling(source),
              documentation |-> _score_documentation(source),
              complexity |-> _score_complexity(source),
              best_practices |-> _score_best_practices(source)]
    IN  [structure |-> q.structure, error_handling |-> q.error_handling,
         documentation |-> q.documentation, complexity |-> q.complexity,
         best_practices |-> q.best_practices, overall |-> QualityOverall(q)]

_calculate_quality_scores(class, source) ==
    IF ~source.parse_ok
    THEN [structure |-> 0, error_handling |-> 0, documentation |-> 0,
          complexity |-> 0, best_practices |-> 0, overall |-> 0]
    ELSE LET q == [structure |-> _score_structure(class, source),
                   error_handling |-> _score_error_handling(source),
                   documentation |-> _score_documentation(source),
                   complexity |-> _score_complexity(source),
                   best_practices |-> _score_best_practices(source)]
         IN  [structure |-> q.structure, error_handling |-> q.error_handling,
              documentation |-> q.documentation, complexity |-> q.complexity,
              best_practices |-> q.best_practices, overall |-> QualityOverall(q)]

\* score is the unrounded overall, in tenths of a hundredth of a point
_assign_grade(score) ==
    IF score >= 90000 THEN "A"
    ELSE IF score >= 80000 THEN "B"
    ELSE IF score >= 70000 THEN "C"
    ELSE IF score >= 60000 THEN "D"
    ELSE "F"

score_strategy(class, source, robustness_result) ==
    LET robustness_score == _calculate_robustness_score(robustness_result)
        quality_scores == _calculate_quality_scores(class, source)
        \* robustness * 0.4 + quality overall * 0.6, in tenths of a hundredth
        overall_score == 4 * robustness_score + 6 * quality_scores.overall
    IN  [robustness |-> robustness_score,
         quality |-> quality_scores,
         overall |-> RoundDiv(overall_score, 10),
         grade |-> _assign_grade(overall_score)]

---------------------------------------------------------------------------
(* Strategy units.  A class is [name, strategy_base, local, methods, unit]: *)
(* its name, whether it subclasses StrategyBase, whether it is defined in   *)
(* the loaded file, its function members, and what its code may do: unit is *)
(* [ctor, init, hd], the behaviours Strategy(), initialize() and            *)
(* handle_data() can show on an invocation.                                 *)

CtorBehaviours == {"ok", "raise"}
\* initialize(): declares type and symbol or not, then returns or raises
InitBehaviours == {"declare_ok", "plain_ok", "raise", "declare_raise"}
\* handle_data(): returns or raises, possibly after an order and an alert; or a
\* fault that depends on what the Stub answers
HdBehaviours == {"pass", "raise", "order_pass", "order_raise",
                 "raise_if_price_none", "raise_if_short"}

AnyUnit == [ctor |-> CtorBehaviours, init |-> InitBehaviours,
            hd |-> {"pass", "raise", "order_pass", "order_raise"}]
CleanUnit == [ctor |-> {"ok"}, init |-> {"declare_ok"}, hd |-> {"order_pass"}]
InitRaisesUnit == [ctor |-> {"ok"}, init |-> {"declare_raise"}, hd |-> {"pass"}]
NonePriceUnit == [ctor |-> {"ok"}, init |-> {"declare_ok"}, hd |-> {"raise_if_price_none"}]
ShortUnit == [ctor |-> {"ok"}, init |-> {"plain_ok"}, hd |-> {"raise_if_short"}]

\* the result of a call: did it raise, and the Stub afterwards
Outcome(raised, st) == [raised |-> raised, stub |-> st]

\* strategy_class()
Construct(class, b, st) == Outcome(b = "raise", st)

\* strategy.initialize(): an AttributeError when the class has no such method
CallInitialize(class, b, st) ==
    IF "initialize" \notin class.methods THEN Outcome(TRUE, st)
    ELSE LET declared == declare_trig_symbol(declare_strategy_type(st, SECURITY))
         IN  CASE b = "declare_ok" -> Outcome(FALSE, declared)
               [] b = "plain_ok" -> Outcome(FALSE, st)
               [] b = "raise" -> Outcome(TRUE, st)
               [] b = "declare_raise" -> Outcome(TRUE, declared)

\* what the unit does when it trades: an order at the current price and an alert
UnitOrder(st) ==
    alert(place_limit(st, st.default_symbol, current_price(st, st.default_symbol),
                      max_qty_to_buy_on_margin(st, st.default_symbol, None, "LMT"),
                      "BUY", "DAY", "RTH"),
          "order placed")

\* strategy.handle_data(): an AttributeError when the class has no such method
CallHandleData(class, b, st) ==
    IF "handle_data" \notin class.methods THEN Outcome(TRUE, st)
    ELSE CASE b = "pass" -> Outcome(FALSE, st)
           [] b = "raise" -> Outcome(TRUE, st)
           [] b = "order_pass" -> Outcome(FALSE, UnitOrder(st))
           [] b = "order_raise" -> Outcome(TRUE, UnitOrder(st))
           [] b = "raise_if_price_none" ->
                Outcome(current_price(st, st.default_symbol) = None, st)
           [] b = "raise_if_short" ->
                LET q == position_holding_qty(st, st.default_symbol)
                IN  Outcome(q.t = "num" /\ q.m < 0, st)

---------------------------------------------------------------------------
(* strategy_loader.load_strategy_class.  A file is [path, exec_raises,     *)
(* classes, source]: whether executing its top-level code raises, the      *)
(* classes its namespace then holds (inspect.getmembers order: by name),   *)
(* and its source text.                                                    *)

\* a candidate test that forgets issubclass(obj, StrategyBase)
CandidateAnyLocal(c) == c.local

StrategyCandidate(c) == c.local /\ c.strategy_base

RECURSIVE FindStrategyClass(_, _, _)
\* the loop over inspect.getmembers(module): "Strategy" wins and ends the loop,
\* else the first candidate is kept as a fallback
FindStrategyClass(classes, i, found) ==
    IF i > Len(classes) THEN found
    ELSE IF StrategyCandidate(classes[i])
         THEN IF classes[i].name = "Strategy" THEN classes[i]
              ELSE IF found = None THEN FindStrategyClass(classes, i + 1, classes[i])
              ELSE FindStrategyClass(classes, i + 1, found)
         ELSE FindStrategyClass(classes, i + 1, found)

LoadResult(class, module_name, error) ==
    [class |-> class, module_name |-> module_name, error |-> error]

\* an error message that leaves out the class name or the fault's message
LoadErrorAnonymous(kind, found) == [t |-> "error", kind |-> kind, found |-> ""]

\* a failure reported without an error message
LoadErrorAbsent(kind, found) == None

LoadError(kind, found) == [t |-> "error", kind |-> kind, found |-> found]

load_strategy_class(file) ==
    IF file.exec_raises
    THEN LoadResult(None, None, LoadError("Loading failed", file.fault))
    ELSE LET cls == FindStrategyClass(file.classes, 1, None)
             local_classes == SelectSeq(file.classes, LAMBDA c : c.local)
         IN  IF cls = None
             THEN IF local_classes /= << >>
                  THEN LoadResult(None, None,
                           LoadError("Strategy class not found, found class", local_classes[1].name))
                  ELSE LoadResult(None, None, LoadError("No strategy class found", ""))
             ELSE IF cls.name /= "Strategy"
                  THEN LoadResult(None, None,
                           LoadError("Found class name is not 'Strategy'", cls.name))
                  ELSE LoadResult(cls, "strategy_" \o file.stem, None)

---------------------------------------------------------------------------
(* robustness_tests *)

NumBoundaryCases == 2
RandomCount == 2
SeedOfRandomPhase == 42
ErrorSampleCap == 10

BoundaryPositions == << IntV(0), IntV(100), IntV(-100) >>
RandomPositions == << IntV(0), IntV(50), IntV(100), IntV(200), IntV(-50) >>

\* the boundary cases the executor iterates over: the last NumBoundaryCases of
\* get_boundary_test_cases()
ExecBoundaryCases ==
    LET all == get_boundary_test_cases
    IN  SubSeq(all, Len(all) - NumBoundaryCases + 1, Len(all))

\* RobustnessTestResult.__init__
NewResult == [passed |-> TRUE, errors |-> << >>, warnings |-> << >>,
              test_count |-> 0, pass_count |-> 0, fail_count |-> 0]

\* an add_error that does not count the failure
AddErrorNoCount(r, error_msg) ==
    [r EXCEPT !.passed = FALSE, !.errors = Append(@, error_msg)]

add_error(r, error_msg) ==
    [r EXCEPT !.passed = FALSE, !.errors = Append(@, error_msg), !.fail_count = @ + 1]

add_pass(r) == [r EXCEPT !.pass_count = @ + 1]

\* the f-strings of the error messages, by their parts
ErrorMsg(phase, kind, case_name, position) ==
    [phase |-> phase, kind |-> kind, case |-> case_name, position |-> position]

\* errors[:10]
FirstN(q, n) == SubSeq(q, 1, Min(n, Len(q)))

\* a report that carries every error message
ReportAllErrors(r) == [test_count |-> r.test_count, pass_count |-> r.pass_count,
                       fail_count |-> r.fail_count, errors |-> r.errors]

Report(r) == [test_count |-> r.test_count, pass_count |-> r.pass_count,
              fail_count |-> r.fail_count, errors |-> FirstN(r.errors, ErrorSampleCap)]

Event(ev, phase, case_name, position, ok) ==
    [ev |-> ev, phase |-> phase, case |-> case_name, position |-> position, ok |-> ok]

NewEx == [symbol |-> None, init_passed |-> None, init_error |-> None,
          boundary |-> None, random |-> None, test_cases |-> << >>,
          case_idx |-> 0, pos_idx |-> 0, seen |-> None]

\* the result of a setup: did it raise, the Stub afterwards, and the Stub the
\* constructor found
SetupOutcome(raised, st, seen) == [raised |-> raised, stub |-> st, seen |-> seen]

\* a setup of one case that does not reset the Stub
SetupCaseStale(class, cb, ib, st, symbol, test_case) ==
    LET c == Construct(class, cb, st)
        i == CallInitialize(class, ib, c.stub)
    IN  IF c.raised THEN SetupOutcome(TRUE, c.stub, st)
        ELSE IF i.raised THEN SetupOutcome(TRUE, i.stub, st)
        ELSE SetupOutcome(FALSE, apply_test_data_to_stub(i.stub, symbol, test_case), st)

\* reset, construct, initialize, apply: the setup of one case.  The Stub after
\* it, and whether a step raised (a raise skips the steps after it)
SetupCase(class, cb, ib, st, symbol, test_case) ==
    LET s0 == reset(st)
        c == Construct(class, cb, s0)
        i == CallInitialize(class, ib, c.stub)
    IN  IF c.raised THEN SetupOutcome(TRUE, c.stub, s0)
        ELSE IF i.raised THEN SetupOutcome(TRUE, i.stub, s0)
        ELSE SetupOutcome(FALSE, apply_test_data_to_stub(i.stub, symbol, test_case), s0)

\* test_strategy_robustness, lines 183-198: reset, construct, initialize, and the
\* early return when one of them raises
RobustStep1 ==
    /\ pc = "step1"
    /\ \E cb \in strategy_class.unit.ctor, ib \in strategy_class.unit.init :
         LET s0 == reset(stub)
             c == Construct(strategy_class, cb, s0)
             i == CallInitialize(strategy_class, ib, c.stub)
             raised == c.raised \/ i.raised
             s1 == IF c.raised THEN c.stub ELSE i.stub
         IN  /\ stub' = s1
             /\ trace' = << Event("setup", "step1", "", None, ~raised) >>
             /\ IF raised
                THEN /\ test_result' = [strategy_name |-> files[file_idx].stem,
                                        initialize_passed |-> FALSE,
                                        initialize_error |-> "fault",
                                        boundary_tests |-> None,
                                        random_tests |-> None]
                     /\ ex' = [NewEx EXCEPT !.seen = s0]
                     /\ pc' = "score"
                ELSE /\ ex' = [NewEx EXCEPT !.seen = s0, !.symbol =
                                  IF s1.declared_symbols /= << >>
                                  THEN s1.declared_symbols[1] ELSE "TEST_SYMBOL"]
                     /\ pc' = "test_initialize"
                     /\ UNCHANGED test_result
    /\ UNCHANGED <<stub_module, report_lines, ld, gen, rng, strategy_class, scores, last_set, last_op, nops, runVars, scoreVars>>

\* test_initialize
TestInitialize ==
    /\ pc = "test_initialize"
    /\ \E cb \in strategy_class.unit.ctor, ib \in strategy_class.unit.init :
         LET s0 == reset(stub)
             c == Construct(strategy_class, cb, s0)
             i == CallInitialize(strategy_class, ib, c.stub)
             raised == c.raised \/ i.raised
         IN  /\ stub' = IF c.raised THEN c.stub ELSE i.stub
             /\ ex' = [ex EXCEPT !.seen = s0, !.init_passed = ~raised,
                                 !.init_error = IF raised THEN "initialize() failed" ELSE None]
             /\ trace' = Append(trace, Event("setup", "test_initialize", "", None, ~raised))
    /\ pc' = "boundary_start"
    /\ UNCHANGED <<stub_module, report_lines, ld, gen, rng, strategy_class, test_result, scores, last_set, last_op, nops,
                   runVars, scoreVars>>

\* a boundary phase whose test_count counts the case x position pairs
BoundaryStartCountingPairs ==
    /\ pc = "boundary_start"
    /\ ex' = [ex EXCEPT !.boundary = [NewResult EXCEPT !.test_count =
                                        Len(ExecBoundaryCases) * Len(BoundaryPositions)],
                        !.test_cases = ExecBoundaryCases,
                        !.case_idx = 1, !.pos_idx = 1]
    /\ pc' = IF ExecBoundaryCases = << >> THEN "random_start" ELSE "boundary_setup"
    /\ UNCHANGED <<stub_module, report_lines, ld, gen, stub, rng, strategy_class, trace, test_result, scores,
                   last_set, last_op, nops, runVars, scoreVars>>

\* test_handle_data_boundary, lines 90-92
BoundaryStart ==
    /\ pc = "boundary_start"
    /\ ex' = [ex EXCEPT !.boundary = [NewResult EXCEPT !.test_count = Len(ExecBoundaryCases)],
                        !.test_cases = ExecBoundaryCases,
                        !.case_idx = 1, !.pos_idx = 1]
    /\ pc' = IF ExecBoundaryCases = << >> THEN "random_start" ELSE "boundary_setup"
    /\ UNCHANGED <<stub_module, report_lines, ld, gen, stub, rng, strategy_class, trace, test_result, scores,
                   last_set, last_op, nops, runVars, scoreVars>>

\* test_handle_data_boundary, lines 95-102 and 117-119: the setup of one case
BoundarySetup ==
    /\ pc = "boundary_setup"
    /\ \E cb \in strategy_class.unit.ctor, ib \in strategy_class.unit.init :
         LET test_case == ex.test_cases[ex.case_idx]
             o == SetupCase(strategy_class, cb, ib, stub, ex.symbol, test_case)
         IN  /\ stub' = o.stub
             /\ trace' = Append(trace, Event("setup", "boundary", test_case.name, None, ~o.raised))
             /\ IF o.raised
                THEN /\ ex' = [ex EXCEPT
                                 !.boundary = add_error(@, ErrorMsg("boundary", "setup failed",
                                                                    test_case.name, None)),
                                 !.case_idx = @ + 1, !.seen = o.seen]
                     /\ pc' = IF ex.case_idx = Len(ex.test_cases)
                              THEN "random_start" ELSE "boundary_setup"
                ELSE /\ ex' = [ex EXCEPT !.pos_idx = 1, !.seen = o.seen]
                     /\ pc' = "boundary_handle"
    /\ UNCHANGED <<stub_module, report_lines, ld, gen, rng, strategy_class, test_result, scores, last_set, last_op, nops,
                   runVars, scoreVars>>

\* test_handle_data_boundary, lines 105-115: one position of one case
BoundaryHandle ==
    /\ pc = "boundary_handle"
    /\ \E hb \in strategy_class.unit.hd :
         LET test_case == ex.test_cases[ex.case_idx]
             position_qty == BoundaryPositions[ex.pos_idx]
             s1 == set_position(stub, ex.symbol, position_qty)
             o == CallHandleData(strategy_class, hb, s1)
             last_pos == ex.pos_idx = Len(BoundaryPositions)
         IN  /\ stub' = o.stub
             /\ trace' = Append(trace, Event("handle", "boundary", test_case.name,
                                             position_holding_qty(s1, ex.symbol), ~o.raised))
             /\ ex' = [ex EXCEPT
                         !.boundary = IF o.raised
                                      THEN add_error(@, ErrorMsg("boundary", "execution failed",
                                                                 test_case.name, position_qty))
                                      ELSE add_pass(@),
                         !.pos_idx = IF last_pos THEN 1 ELSE @ + 1,
                         !.case_idx = IF last_pos THEN @ + 1 ELSE @]
             /\ pc' = IF ~last_pos THEN "boundary_handle"
                      ELSE IF ex.case_idx = Len(ex.test_cases) THEN "random_start"
                      ELSE "boundary_setup"
    /\ UNCHANGED <<stub_module, report_lines, ld, gen, rng, strategy_class, test_result, scores, last_set, last_op, nops,
                   runVars, scoreVars>>

\* test_handle_data_random, lines 138-140
RandomStart ==
    /\ pc = "random_start"
    /\ LET g == get_random_test_cases(RandomCount, IntV(SeedOfRandomPhase), rng)
       IN  /\ rng' = g.rng
           /\ ex' = [ex EXCEPT !.random = [NewResult EXCEPT !.test_count = Len(g.cases)],
                               !.test_cases = g.cases, !.case_idx = 1, !.pos_idx = 1]
           /\ pc' = IF g.cases = << >> THEN "robust_return" ELSE "random_setup"
    /\ UNCHANGED <<stub_module, report_lines, ld, gen, stub, strategy_class, trace, test_result, scores,
                   last_set, last_op, nops, runVars, scoreVars>>

\* a random phase that draws the position of a case before its setup, so also
\* for a case whose setup raises
RandomSetupDrawingFirst ==
    /\ pc = "random_setup"
    /\ \E cb \in strategy_class.unit.ctor, ib \in strategy_class.unit.init :
         LET test_case == ex.test_cases[ex.case_idx]
             o == SetupCase(strategy_class, cb, ib, stub, ex.symbol, test_case)
             x == RngNext(rng)
             position_qty == RandomChoice(x, RandomPositions)
         IN  /\ trace' = Append(trace, Event("setup", "random", test_case.name, None, ~o.raised))
             /\ IF o.raised
                THEN /\ stub' = o.stub
                     /\ rng' = x
                     /\ ex' = [ex EXCEPT
                                 !.random = add_error(@, ErrorMsg("random", "setup failed",
                                                                  test_case.name, None)),
                                 !.case_idx = @ + 1, !.seen = o.seen]
                     /\ pc' = IF ex.case_idx = Len(ex.test_cases)
                              THEN "robust_return" ELSE "random_setup"
                ELSE /\ stub' = set_position(o.stub, ex.symbol, position_qty)
                     /\ rng' = x
                     /\ ex' = [ex EXCEPT !.seen = o.seen]
                     /\ pc' = "random_handle"
    /\ UNCHANGED <<stub_module, report_lines, ld, gen, strategy_class, test_result, scores, last_set, last_op, nops,
                   runVars, scoreVars>>

\* test_handle_data_random, lines 143-155 and 165-167: the setup of one case and
\* the draw of its position
RandomSetup ==
    /\ pc = "random_setup"
    /\ \E cb \in strategy_class.unit.ctor, ib \in strategy_class.unit.init :
         LET test_case == ex.test_cases[ex.case_idx]
             o == SetupCase(strategy_class, cb, ib, stub, ex.symbol, test_case)
             x == RngNext(rng)
             position_qty == RandomChoice(x, RandomPositions)
         IN  /\ trace' = Append(trace, Event("setup", "random", test_case.name, None, ~o.raised))
             /\ IF o.raised
                THEN /\ stub' = o.stub
                     /\ rng' = rng
                     /\ ex' = [ex EXCEPT
                                 !.random = add_error(@, ErrorMsg("random", "setup failed",
                                                                  test_case.name, None)),
                                 !.case_idx = @ + 1, !.seen = o.seen]
                     /\ pc' = IF ex.case_idx = Len(ex.test_cases)
                              THEN "robust_return" ELSE "random_setup"
                ELSE /\ stub' = set_position(o.stub, ex.symbol, position_qty)
                     /\ rng' = x
                     /\ ex' = [ex EXCEPT !.seen = o.seen]
                     /\ pc' = "random_handle"
    /\ UNCHANGED <<stub_module, report_lines, ld, gen, strategy_class, test_result, scores, last_set, last_op, nops,
                   runVars, scoreVars>>

\* test_handle_data_random, lines 158-163
RandomHandle ==
    /\ pc = "random_handle"
    /\ \E hb \in strategy_class.unit.hd :
         LET test_case == ex.test_cases[ex.case_idx]
             o == CallHandleData(strategy_class, hb, stub)
         IN  /\ stub' = o.stub
             /\ trace' = Append(trace, Event("handle", "random", test_case.name,
                                             position_holding_qty(stub, ex.symbol), ~o.raised))
             /\ ex' = [ex EXCEPT
                         !.random = IF o.raised
                                    THEN add_error(@, ErrorMsg("random", "execution failed",
                                                               test_case.name, None))
                                    ELSE add_pass(@),
                         !.case_idx = @ + 1]
             /\ pc' = IF ex.case_idx = Len(ex.test_cases)
                      THEN "robust_return" ELSE "random_setup"
    /\ UNCHANGED <<stub_module, report_lines, ld, gen, rng, strategy_class, test_result, scores, last_set, last_op, nops,
                   runVars, scoreVars>>

\* test_strategy_robustness, lines 209-225
RobustReturn ==
    /\ pc = "robust_return"
    /\ test_result' = [strategy_name |-> files[file_idx].stem,
                       initialize_passed |-> ex.init_passed,
                       initialize_error |-> ex.init_error,
                       boundary_tests |-> Report(ex.boundary),
                       random_tests |-> Report(ex.random)]
    /\ pc' = "score"
    /\ UNCHANGED <<stub_module, report_lines, ld, gen, stub, rng, strategy_class, ex, trace, scores, last_set, last_op, nops,
                   runVars, scoreVars>>

---------------------------------------------------------------------------
(* test_generated_strategy: the runner *)

\* get_model_from_path: file.words are the vendor words the lower-cased path contains
get_model_from_path(file) ==
    IF "gemini" \in file.words THEN "gemini"
    ELSE IF "gpt" \in file.words \/ "chatgpt" \in file.words THEN "gpt"
    ELSE IF "deepseek" \in file.words THEN "deepseek"
    ELSE "unknown"

\* find_strategy_files: the entries of the tree that are kept, sorted by path
\* (rank is the place of the path in the sorted order of all paths)
KeptByDiscovery(entry) ==
    /\ ~entry.pycache
    /\ ~entry.test_name
    /\ entry.readable
    /\ ~entry.first_line_json

RECURSIVE SortByRank(_)
SortByRank(entries) ==
    IF entries = {} THEN << >>
    ELSE LET first == CHOOSE e \in entries : \A o \in entries : e.rank <= o.rank
         IN  <<first>> \o SortByRank(entries \ {first})

find_strategy_files(tree) == SortByRank({e \in tree : KeptByDiscovery(e)})

\* the files after the one at i: the next iteration, or the summary
NextFilePc(i) == IF i >= Len(files) THEN "summary" ELSE "load"

\* run_all_tests, lines 43-58
RunStart ==
    /\ pc = "start"
    /\ IF files = << >>
       THEN \* returns {"total": 0, "results": []}; results["failed"] at line 393
            \* raises KeyError and the interpreter exits with status 1
            /\ pc' = "done"
            /\ exit_status' = 1
            /\ UNCHANGED file_idx
       ELSE /\ pc' = "load"
            /\ file_idx' = 1
            /\ UNCHANGED exit_status
    /\ UNCHANGED <<stub_module, report_lines, ld, gen, stubVars, rng, strategy_class, ex, trace, test_result, scores,
                   files, results, csv_rows, model_results, total_passed, total_failed,
                   scoreVars>>

\* a runner that stops at the first file that fails to load
RunLoadAborting ==
    /\ pc = "load"
    /\ LET file == files[file_idx]
           loaded == load_strategy_class(file)
       IN  IF loaded.error /= None
           THEN /\ total_failed' = total_failed + 1
                /\ pc' = "summary"
                /\ UNCHANGED <<strategy_class, file_idx, results>>
           ELSE /\ strategy_class' = loaded.class
                /\ pc' = "step1"
                /\ UNCHANGED <<results, total_failed, file_idx>>
    /\ UNCHANGED <<stub_module, report_lines, ld, gen, stubVars, rng, ex, trace, test_result, scores, files, csv_rows,
                   model_results, total_passed, exit_status, scoreVars>>

\* a runner that records a file that fails to load without counting it as failed
RunLoadUncounted ==
    /\ pc = "load"
    /\ LET file == files[file_idx]
           loaded == load_strategy_class(file)
       IN  IF loaded.error /= None
           THEN /\ results' = Append(results, [file |-> file.path, status |-> "load_failed",
                                               error |-> loaded.error])
                /\ total_failed' = total_failed
                /\ file_idx' = file_idx + 1
                /\ pc' = NextFilePc(file_idx)
                /\ UNCHANGED strategy_class
           ELSE IF loaded.class = None
           THEN /\ results' = Append(results, [file |-> file.path, status |-> "class_not_found",
                                               error |-> "Strategy class not found"])
                /\ total_failed' = total_failed + 1
                /\ file_idx' = file_idx + 1
                /\ pc' = NextFilePc(file_idx)
                /\ UNCHANGED strategy_class
           ELSE /\ strategy_class' = loaded.class
                /\ pc' = "step1"
                /\ UNCHANGED <<results, total_failed, file_idx>>
    /\ UNCHANGED <<stub_module, report_lines, ld, gen, stubVars, rng, ex, trace, test_result, scores, files, csv_rows,
                   model_results, total_passed, exit_status, scoreVars>>

\* run_all_tests, lines 60-89: load the file; a failure is recorded and the loop
\* continues with the next file
RunLoad ==
    /\ pc = "load"
    /\ LET file == files[file_idx]
           loaded == load_strategy_class(file)
       IN  IF loaded.error /= None
           THEN /\ results' = Append(results, [file |-> file.path, status |-> "load_failed",
                                               error |-> loaded.error])
                /\ total_failed' = total_failed + 1
                /\ file_idx' = file_idx + 1
                /\ pc' = NextFilePc(file_idx)
                /\ UNCHANGED strategy_class
           ELSE IF loaded.class = None
           THEN /\ results' = Append(results, [file |-> file.path, status |-> "class_not_found",
                                               error |-> "Strategy class not found"])
                /\ total_failed' = total_failed + 1
                /\ file_idx' = file_idx + 1
                /\ pc' = NextFilePc(file_idx)
                /\ UNCHANGED strategy_class
           ELSE /\ strategy_class' = loaded.class
                /\ pc' = "step1"
                /\ UNCHANGED <<results, total_failed, file_idx>>
    /\ UNCHANGED <<stub_module, report_lines, ld, gen, stubVars, rng, ex, trace, test_result, scores, files, csv_rows,
                   model_results, total_passed, exit_status, scoreVars>>

\* a determination from the reports alone, absent reports holding no failure
OverallPassedByReports(result) ==
    IF result.boundary_tests = None THEN TRUE
    ELSE IF result.boundary_tests.fail_count /= 0 THEN FALSE
    ELSE result.random_tests.fail_count = 0

\* lines 145-149: "and" reads the reports only when initialize passed
OverallPassed(result) ==
    IF ~result.initialize_passed THEN FALSE
    ELSE IF result.boundary_tests.fail_count /= 0 THEN FALSE
    ELSE result.random_tests.fail_count = 0

CsvRow(file, model, sc) ==
    [model |-> model, file |-> file.path, strategy_name |-> file.stem,
     overall |-> sc.overall, robustness |-> sc.robustness,
     quality_overall |-> sc.quality.overall, structure |-> sc.quality.structure,
     error_handling |-> sc.quality.error_handling,
     documentation |-> sc.quality.documentation,
     complexity |-> sc.quality.complexity, best_practices |-> sc.quality.best_practices]

\* framework_stub.reset_stub on the _stub_instance of its own module
reset_stub(instance) == IF instance /= None THEN reset(instance) ELSE instance

\* the _stub_instance of module framework_stub, which the runner imports
\* reset_stub from (line 18): the Stub get_stub gave the loader and the executor
\* when they imported that module too, still None when they imported
\* tests.framework_stub, a module object of its own with a global of its own
RunnerStubInstance == IF stub_module = "framework_stub" THEN stub ELSE None

\* run_all_tests, lines 95-188: score the unit, decide pass/fail, record, reset
RunScoreAndRecord ==
    /\ pc = "score"
    /\ LET file == files[file_idx]
           sc == score_strategy(strategy_class, file.source, test_result)
           overall_passed == OverallPassed(test_result)
           model == get_model_from_path(file)
           entry == [strategy_name |-> test_result.strategy_name,
                     initialize_passed |-> test_result.initialize_passed,
                     initialize_error |-> test_result.initialize_error,
                     boundary_tests |-> test_result.boundary_tests,
                     random_tests |-> test_result.random_tests,
                     file |-> file.path,
                     status |-> IF overall_passed THEN "passed" ELSE "failed",
                     scores |-> sc]
       IN  /\ scores' = sc
           /\ total_passed' = IF overall_passed THEN total_passed + 1 ELSE total_passed
           /\ total_failed' = IF overall_passed THEN total_failed ELSE total_failed + 1
           /\ model_results' = [model_results EXCEPT ![model] = Append(@, entry)]
           /\ results' = Append(results, entry)
           /\ csv_rows' = Append(csv_rows, CsvRow(file, model, sc))
    /\ stub' = IF RunnerStubInstance = None THEN stub ELSE reset_stub(RunnerStubInstance)
    /\ file_idx' = file_idx + 1
    /\ pc' = NextFilePc(file_idx)
    /\ UNCHANGED <<stub_module, report_lines, ld, gen, last_set, last_op, nops, rng, strategy_class, ex, trace, test_result,
                   files, exit_status, scoreVars>>

\* lines 198, 218, 296: the results that carry a ScoreRecord
Scored(rs) == SelectSeq(rs, LAMBDA r : "scores" \in DOMAIN r)

WithStatus(rs, status) == SelectSeq(rs, LAMBDA r : r.status = status)

\* sum(r["scores"][...] for r in scored); a mean is kept as this sum and
\* len(scored)
ScoreSums(scored) ==
    [count |-> Len(scored),
     overall |-> SumSeq([i \in 1..Len(scored) |-> scored[i].scores.overall]),
     robustness |-> SumSeq([i \in 1..Len(scored) |-> scored[i].scores.robustness]),
     quality |-> SumSeq([i \in 1..Len(scored) |-> scored[i].scores.quality.overall])]

\* line 291: the groups the summary loops over
ReportedModels == << "gemini", "gpt", "deepseek" >>

\* lines 300-347: the summary of one group
ModelSummary(model_name, model_strategies) ==
    [model |-> model_name,
     total |-> Len(model_strategies),
     passed |-> Len(WithStatus(model_strategies, "passed")),
     failed |-> Len(WithStatus(model_strategies, "failed")),
     sums |-> ScoreSums(Scored(model_strategies))]

\* lines 291-298: a group with no unit, or with no scored unit, is skipped
ModelSummaries(by_model) ==
    LET all == [i \in 1..Len(ReportedModels) |->
                   ModelSummary(ReportedModels[i], by_model[ReportedModels[i]])]
    IN  SelectSeq(all, LAMBDA g : g.total > 0 /\ g.sums.count > 0)

\* lines 272-355: what is written to test_results.txt
ReportLines ==
    [total |-> Len(files), passed |-> total_passed, failed |-> total_failed,
     overall |-> IF Scored(results) = << >> THEN None ELSE ScoreSums(Scored(results)),
     models |-> ModelSummaries(model_results)]

\* lines 190-393: the summary, and sys.exit(0 if results["failed"] == 0 else 1)
RunSummary ==
    /\ pc = "summary"
    /\ report_lines' = ReportLines
    /\ exit_status' = IF total_failed = 0 THEN 0 ELSE 1
    /\ pc' = "done"
    /\ UNCHANGED <<stub_module, ld, gen, stubVars, rng, strategy_class, ex, trace, test_result, scores,
                   files, file_idx, results, csv_rows, model_results,
                   total_passed, total_failed, scoreVars>>

---------------------------------------------------------------------------
(* Inputs *)

MaxFiles == 2

AllMethods == {"initialize", "handle_data", "custom_indicator"}

Class(name, strategy_base, methods, unit) ==
    [name |-> name, strategy_base |-> strategy_base, local |-> TRUE,
     methods |-> methods, unit |-> unit]

Source(method_docs, try_blocks, none_checks, ifs, magic_numbers, underscore, returns) ==
    [parse_ok |-> TRUE, class_defs |-> 1, class_docs |-> 0, method_docs |-> method_docs,
     ifs |-> ifs, loops |-> 0, try_blocks |-> try_blocks, boolops |-> << >>,
     none_checks |-> none_checks, magic_numbers |-> magic_numbers,
     underscore |-> underscore, returns |-> returns]

\* a guarded unit: quality overall 76.5
GuardedSource == Source(1, 3, 11, 0, 0, TRUE, << >>)
\* a bare unit
BareSource == Source(0, 0, 0, 6, 11, FALSE, << 1 >>)

Content(exec_raises, classes, source) ==
    [exec_raises |-> exec_raises, fault |-> IF exec_raises THEN "boom" ELSE "",
     classes |-> classes, source |-> source]

\* what a discovered file can hold
FileContents ==
    { Content(TRUE, << >>, BareSource),
      Content(FALSE, << >>, BareSource),
      Content(FALSE, << Class("Helper", FALSE, {}, CleanUnit) >>, BareSource),
      Content(FALSE, << Class("MyStrategy", TRUE, AllMethods, CleanUnit) >>, GuardedSource),
      Content(FALSE, << Class("Strategy", TRUE, AllMethods, CleanUnit) >>, GuardedSource),
      Content(FALSE, << Class("Strategy", TRUE, AllMethods, InitRaisesUnit) >>, BareSource),
      Content(FALSE, << Class("Strategy", TRUE, AllMethods, NonePriceUnit) >>, BareSource),
      Content(FALSE, << Class("Helper", FALSE, {}, CleanUnit),
                        Class("Strategy", TRUE, {"initialize", "handle_data"}, ShortUnit) >>,
              GuardedSource) }

Entry(rank, path, stem, words, test_name, content) ==
    [rank |-> rank, path |-> path, stem |-> stem, words |-> words,
     pycache |-> FALSE, test_name |-> test_name, readable |-> TRUE,
     first_line_json |-> FALSE,
     exec_raises |-> content.exec_raises, fault |-> content.fault,
     classes |-> content.classes,
     source |-> content.source]

\* the paths of the tree, in sorted order
PathPool ==
    << [path |-> "strategy/deepseek/deepseek_tsla.py", stem |-> "deepseek_tsla",
        words |-> {"deepseek"}, test_name |-> FALSE],
       [path |-> "strategy/gemini/gemini_nvda.py", stem |-> "gemini_nvda",
        words |-> {"gemini"}, test_name |-> FALSE],
       [path |-> "strategy/gpt/chatgpt_tqqq.py", stem |-> "chatgpt_tqqq",
        words |-> {"gpt", "chatgpt"}, test_name |-> FALSE],
       [path |-> "strategy/gpt/test_chatgpt.py", stem |-> "test_chatgpt",
        words |-> {"gpt", "chatgpt"}, test_name |-> TRUE],
       [path |-> "strategy/momentum.py", stem |-> "momentum",
        words |-> {}, test_name |-> FALSE] >>

\* the trees of at most MaxFiles files
Trees ==
    LET ranks == {R \in SUBSET (1..Len(PathPool)) : Cardinality(R) <= MaxFiles}
        contents(r) == IF PathPool[r].test_name
                       THEN {Content(FALSE, << >>, BareSource)} ELSE FileContents
        entry(r, c) == Entry(r, PathPool[r].path, PathPool[r].stem, PathPool[r].words,
                             PathPool[r].test_name, c)
    IN  UNION { { {entry(r, f[r]) : r \in R} : f \in {g \in [R -> FileContents] :
                                                      \A r \in R : g[r] \in contents(r)} }
                : R \in ranks }

RngInits == {0, 511}

ModelNames == {"gemini", "gpt", "deepseek", "unknown"}

IdleStub ==
    /\ stub = NewStub
    /\ last_set = EmptyDict
    /\ last_op = [op |-> "init", dirty |-> FALSE]
    /\ nops = 0

IdleExec ==
    /\ strategy_class = None
    /\ ex = NewEx
    /\ trace = << >>
    /\ test_result = None
    /\ scores = None

IdleRun ==
    /\ file_idx = 1
    /\ results = << >>
    /\ csv_rows = << >>
    /\ model_results = [m \in ModelNames |-> << >>]
    /\ total_passed = 0
    /\ total_failed = 0
    /\ exit_status = -1

\* no loop of get_boundary_test_cases under way, no call of get_random_test_cases made
NewGen == [combo |-> 1, test_cases |-> << >>, returned |-> None, calls |-> << >>]

IdleGen == gen = NewGen

\* load_strategy_class not called yet
IdleLoad == ld = [file |-> None, result |-> None]

\* run_all_tests has written no summary yet
IdleReport == report_lines = None

\* the modules "from tests.framework_stub import ..." with the fallback "from
\* framework_stub import ..." can bind: the first when tests/ is importable as
\* a package from the project root, the second when that import fails
StubModules == {"tests.framework_stub", "framework_stub"}

\* tests/ under the project root, which the runner puts on sys.path
RepositoryLayout == stub_module = "tests.framework_stub"

IdleScore ==
    /\ sc_class = None
    /\ sc_source = None
    /\ sc_result = None
    /\ sc_scores = None

---------------------------------------------------------------------------
(* Spec: run_all_tests over a discovered tree *)

Init ==
    /\ IdleStub /\ IdleExec /\ IdleRun /\ IdleScore /\ IdleGen /\ IdleLoad /\ IdleReport
    /\ rng \in RngInits
    /\ pc = "start"
    /\ stub_module \in StubModules
    /\ \E tree \in Trees : files = find_strategy_files(tree)

Next ==
    \/ RunStart
    \/ RunLoad
    \/ RobustStep1
    \/ TestInitialize
    \/ BoundaryStart
    \/ BoundarySetup
    \/ BoundaryHandle
    \/ RandomStart
    \/ RandomSetup
    \/ RandomHandle
    \/ RobustReturn
    \/ RunScoreAndRecord
    \/ RunSummary

Spec == Init /\ [][Next]_vars

---------------------------------------------------------------------------
(* SpecExec: test_strategy_robustness and score_strategy on one unit whose  *)
(* constructor, initialize and handle_data may pass or raise on any         *)
(* invocation                                                               *)

\* CodeQualityScorer().score_strategy(strategy_class, source_code, test_result)
ExecScore ==
    /\ pc = "score"
    /\ scores' = score_strategy(strategy_class, files[file_idx].source, test_result)
    /\ pc' = "done"
    /\ UNCHANGED <<stub_module, report_lines, ld, gen, stubVars, rng, strategy_class, ex, trace, test_result, runVars, scoreVars>>

ExecInit ==
    /\ IdleStub /\ IdleRun /\ IdleScore /\ IdleGen /\ IdleLoad /\ IdleReport /\ RepositoryLayout
    /\ rng \in RngInits
    /\ pc = "step1"
    /\ ex = NewEx
    /\ trace = << >>
    /\ test_result = None
    /\ scores = None
    /\ \E methods \in {AllMethods, {"initialize"}} :
         /\ strategy_class = Class("Strategy", TRUE, methods, AnyUnit)
         /\ files = << Entry(1, PathPool[1].path, PathPool[1].stem, PathPool[1].words, FALSE,
                             Content(FALSE, << strategy_class >>, GuardedSource)) >>

ExecNext ==
    \/ RobustStep1
    \/ TestInitialize
    \/ BoundaryStart
    \/ BoundarySetup
    \/ BoundaryHandle
    \/ RandomStart
    \/ RandomSetup
    \/ RandomHandle
    \/ RobustReturn
    \/ ExecScore

SpecExec == ExecInit /\ [][ExecNext]_vars

\* SpecPhases: the same executor on the unit that has every method; what the
\* phases do does not depend on the methods a class lists
PhasesInit == ExecInit /\ strategy_class.methods = AllMethods

SpecPhases == PhasesInit /\ [][ExecNext]_vars

---------------------------------------------------------------------------
(* SpecScore: score_strategy on any robustness result and any source text   *)

MaxBoundaryTests == 7
MaxRandomTests == 3

CountReport(test_count, pass_count, fail_count) ==
    [test_count |-> test_count, pass_count |-> pass_count, fail_count |-> fail_count,
     errors |-> << >>]

RobustnessResult(initialize_passed, boundary_tests, random_tests) ==
    [strategy_name |-> "unit", initialize_passed |-> initialize_passed,
     initialize_error |-> IF initialize_passed THEN None ELSE "fault",
     boundary_tests |-> boundary_tests, random_tests |-> random_tests]

\* a boundary report counts up to three outcomes for each case
BoundaryReports ==
    { CountReport(n, p, 3 * n - p) : <<n, p>> \in
        {np \in (0..MaxBoundaryTests) \X (0..(3 * MaxBoundaryTests)) : np[2] <= 3 * np[1]} }

RandomReports ==
    { CountReport(n, p, n - p) : <<n, p>> \in
        {np \in (0..MaxRandomTests) \X (0..MaxRandomTests) : np[2] <= np[1]} }

FewRobustnessResults ==
    { RobustnessResult(TRUE, CountReport(2, 6, 0), CountReport(2, 2, 0)),
      RobustnessResult(TRUE, CountReport(7, 1, 20), CountReport(3, 2, 1)),
      RobustnessResult(FALSE, None, None) }

AllClasses ==
    { Class("Strategy", TRUE, m, CleanUnit) :
        m \in { {}, {"custom_indicator"}, {"initialize"}, {"initialize", "handle_data"},
                AllMethods } }

MakeSource(cd, md, ifs, loops, tb, bo, nc, mn, us, rt) ==
    [parse_ok |-> TRUE, class_defs |-> cd[1], class_docs |-> cd[2], method_docs |-> md,
     ifs |-> ifs, loops |-> loops, try_blocks |-> tb, boolops |-> bo,
     none_checks |-> nc, magic_numbers |-> mn, underscore |-> us, returns |-> rt]

\* a text ast.parse rejects
UnparsableSource == [GuardedSource EXCEPT !.parse_ok = FALSE]

\* a Return inside an If needs an If
WellFormedSource(source) ==
    (\E i \in 1..Len(source.returns) : source.returns[i] > 0) => source.ifs > 0

FullClass == Class("Strategy", TRUE, AllMethods, CleanUnit)

FewSources == {GuardedSource, BareSource, UnparsableSource}

\* every robustness result with a few sources
ScoreInputsByResult ==
    /\ sc_class = FullClass
    /\ sc_source \in FewSources
    /\ \E i \in BOOLEAN, b \in BoundaryReports, r \in RandomReports :
         sc_result = RobustnessResult(i, b, r)

\* every source with one result
ScoreInputsBySource ==
    /\ sc_class = FullClass
    /\ sc_result = RobustnessResult(TRUE, CountReport(2, 6, 0), CountReport(2, 2, 0))
    /\ \E cd \in {<<0, 0>>, <<1, 0>>, <<1, 1>>}, md \in {0, 1, 8}, ifs \in {0, 6, 21},
          loops \in {0, 1}, tb \in {0, 1, 3}, bo \in {<< >>, <<3>>}, nc \in {0, 1, 11},
          mn \in {0, 1, 11}, us \in BOOLEAN,
          rt \in {<< >>, <<0>>, <<1>>, <<2>>, <<2, 2, 1>>} :
         /\ sc_source = MakeSource(cd, md, ifs, loops, tb, bo, nc, mn, us, rt)
         /\ WellFormedSource(sc_source)

\* a text that parses and holds no class statement
ClasslessSource == [BareSource EXCEPT !.class_defs = 0]

\* every class with a few sources and results
ScoreInputsByClass ==
    /\ sc_class \in AllClasses
    /\ sc_source \in FewSources \cup {ClasslessSource}
    /\ sc_result \in FewRobustnessResults

ScoreInit ==
    /\ IdleStub /\ IdleExec /\ IdleRun /\ IdleGen /\ IdleLoad /\ IdleReport /\ RepositoryLayout
    /\ rng = 0
    /\ pc = "idle"
    /\ files = << >>
    /\ sc_scores = None
    /\ (ScoreInputsByResult \/ ScoreInputsBySource \/ ScoreInputsByClass)

ScoreStrategy ==
    /\ sc_scores = None
    /\ sc_scores' = score_strategy(sc_class, sc_source, sc_result)
    /\ UNCHANGED <<stub_module, report_lines, ld, gen, stubVars, execVars, runVars, sc_class, sc_source, sc_result>>

ScoreNext == ScoreStrategy

SpecScore == ScoreInit /\ [][ScoreNext]_vars

---------------------------------------------------------------------------
(* A driver of the Stub alone: any MaxStubOps operations in any order *)

MaxStubOps == 3

Symbols == {"TEST_SYMBOL", "AAPL"}
Periods == {14, 20}
Bars == {"D1"}
StubValues == {None, NaN, NegInf, IntV(150)}
PositionValues == {None, IntV(0), IntV(-100)}

\* the state every Stub driver step leaves alone is named by each specification
StubKey(kind, symbol, period, bar_type) == <<kind, symbol, period, bar_type>>

\* the value the query matching a setter key returns
Query(st, k) ==
    CASE k[1] = "price" -> current_price(st, k[2])
      [] k[1] = "ma" -> ma(st, k[2], k[3], k[4])
      [] k[1] = "rsi" -> rsi(st, k[2], k[3], k[4])
      [] k[1] = "position" -> position_holding_qty(st, k[2])

StubStep(op, st, ls) ==
    /\ nops < MaxStubOps
    /\ nops' = nops + 1
    /\ stub' = st
    /\ last_set' = ls
    /\ last_op' = [op |-> op, dirty |-> stub /= NewStub]
    /\ UNCHANGED <<stub_module, report_lines, ld, gen, execVars, runVars, scoreVars>>

StubSetPrice ==
    \E s \in Symbols, v \in StubValues :
        StubStep("set_price", set_price(stub, s, v),
                 DictSet(last_set, StubKey("price", s, 0, ""), v))

StubSetMa ==
    \E s \in Symbols, p \in Periods, b \in Bars, v \in StubValues :
        StubStep("set_ma", set_ma(stub, s, p, b, v),
                 DictSet(last_set, StubKey("ma", s, p, b), v))

StubSetRsi ==
    \E s \in Symbols, p \in Periods, b \in Bars, v \in StubValues :
        StubStep("set_rsi", set_rsi(stub, s, p, b, v),
                 DictSet(last_set, StubKey("rsi", s, p, b), v))

StubSetPosition ==
    \E s \in Symbols, v \in PositionValues :
        StubStep("set_position", set_position(stub, s, v),
                 DictSet(last_set, StubKey("position", s, 0, ""), v))

StubDeclareType == StubStep("declare_strategy_type", declare_strategy_type(stub, SECURITY), last_set)

StubDeclareSymbol == StubStep("declare_trig_symbol", declare_trig_symbol(stub), last_set)

StubPlaceLimit ==
    \E s \in Symbols, side \in {"BUY", "SELL"} :
        StubStep("place_limit",
                 place_limit(stub, s, current_price(stub, s), IntV(1), side, "DAY", "RTH"),
                 last_set)

StubAlert == StubStep("alert", alert(stub, "signal"), last_set)

StubReset == StubStep("reset", reset(stub), EmptyDict)

StubInit ==
    /\ IdleStub /\ IdleExec /\ IdleRun /\ IdleScore /\ IdleGen /\ IdleLoad /\ IdleReport /\ RepositoryLayout
    /\ rng = 0
    /\ pc = "idle"
    /\ files = << >>

StubNext ==
    \/ StubSetPrice
    \/ StubSetMa
    \/ StubSetRsi
    \/ StubSetPosition
    \/ StubDeclareType
    \/ StubDeclareSymbol
    \/ StubPlaceLimit
    \/ StubAlert
    \/ StubReset

SpecStub == StubInit /\ [][StubNext]_vars

---------------------------------------------------------------------------
(* SpecGen: the TestDataGenerator on its own                                 *)
(* Either the three nested loops of get_boundary_test_cases, one combination *)
(* a step, or a series of get_random_test_cases calls with draws from the    *)
(* same source between them.                                                 *)

MaxGenCalls == 2
MaxGenCount == 2
MaxGenDraws == 2
GenSeeds == {None, IntV(0), IntV(SeedOfRandomPhase)}

\* one iteration of the innermost loop: skip the combination or append its case
GenBoundaryStep ==
    /\ pc = "gen_boundary"
    /\ gen.combo <= Len(boundary_values) * Len(boundary_values) * Len(boundary_values)
    /\ LET c == Combination(gen.combo)
       IN  gen' = [gen EXCEPT !.combo = @ + 1,
                              !.test_cases = IF SkipCombination(c.rsi) THEN @
                                             ELSE Append(@, c)]
    /\ UNCHANGED <<stub_module, report_lines, ld, stubVars, execVars, runVars, scoreVars>>

\* test_cases.extend(common_cases); return test_cases
GenBoundaryReturn ==
    /\ pc = "gen_boundary"
    /\ gen.combo > Len(boundary_values) * Len(boundary_values) * Len(boundary_values)
    /\ gen' = [gen EXCEPT !.returned = gen.test_cases \o common_cases]
    /\ pc' = "done"
    /\ UNCHANGED <<stub_module, report_lines, ld, stubVars, rng, strategy_class, ex, trace, test_result, scores,
                   runVars, scoreVars>>

\* the events of the random driver
GenCalls == SelectSeq(gen.calls, LAMBDA e : e.ev = "call")
GenDraws == SelectSeq(gen.calls, LAMBDA e : e.ev = "draw")

\* get_random_test_cases(count, seed)
GenRandomCall ==
    /\ pc = "gen_random"
    /\ Len(GenCalls) < MaxGenCalls
    /\ \E count \in 0..MaxGenCount, seed \in GenSeeds :
         LET g == get_random_test_cases(count, seed, rng)
         IN  /\ rng' = g.rng
             /\ gen' = [gen EXCEPT !.calls = Append(@, [ev |-> "call", count |-> count,
                                    seed |-> seed, from |-> rng, cases |-> g.cases])]
    /\ UNCHANGED <<stub_module, report_lines, ld, stubVars, pc, strategy_class, ex, trace, test_result, scores,
                   runVars, scoreVars>>

\* a draw some other user of the random module makes, such as random.choice
GenDraw ==
    /\ pc = "gen_random"
    /\ Len(GenDraws) < MaxGenDraws
    /\ rng' = RngNext(rng)
    /\ gen' = [gen EXCEPT !.calls = Append(@, [ev |-> "draw"])]
    /\ UNCHANGED <<stub_module, report_lines, ld, stubVars, pc, strategy_class, ex, trace, test_result, scores,
                   runVars, scoreVars>>

GenInit ==
    /\ IdleStub /\ IdleExec /\ IdleRun /\ IdleScore /\ IdleGen /\ IdleLoad /\ IdleReport /\ RepositoryLayout
    /\ files = << >>
    /\ \/ pc = "gen_boundary" /\ rng = 0
       \/ pc = "gen_random" /\ rng \in RngInits

GenNext ==
    \/ GenBoundaryStep
    \/ GenBoundaryReturn
    \/ GenRandomCall
    \/ GenDraw

SpecGen == GenInit /\ [][GenNext]_vars

---------------------------------------------------------------------------
(* SpecLoad: load_strategy_class on any module namespace                     *)

\* the classes a module can hold under one name: defined in the file or
\* imported, a StrategyBase subclass or not, with or without the hooks
ClassNames == << "Helper", "MyStrategy", "Strategy", "Trend" >>
ClassesNamed(name) ==
    { [name |-> name, strategy_base |-> sb, local |-> lc, methods |-> ms, unit |-> CleanUnit] :
        sb \in BOOLEAN, lc \in BOOLEAN,
        ms \in {{}, {"initialize"}, {"initialize", "handle_data"}} }

\* inspect.getmembers(module): the classes of the namespace, sorted by name
Members(picked) == SelectSeq(picked, LAMBDA c : c /= None)

LoadInit ==
    /\ IdleStub /\ IdleExec /\ IdleRun /\ IdleScore /\ IdleGen
    /\ IdleReport /\ RepositoryLayout
    /\ rng = 0
    /\ pc = "load_file"
    /\ files = << >>
    /\ \E fault \in {"", "boom", "invalid syntax"} :
       \E c1 \in ClassesNamed(ClassNames[1]) \cup {None},
          c2 \in ClassesNamed(ClassNames[2]) \cup {None},
          c3 \in ClassesNamed(ClassNames[3]) \cup {None},
          c4 \in ClassesNamed(ClassNames[4]) \cup {None} :
         ld = [file |-> [path |-> PathPool[1].path, stem |-> PathPool[1].stem,
                         exec_raises |-> fault /= "", fault |-> fault,
                         classes |-> Members(<< c1, c2, c3, c4 >>)],
               result |-> None]

\* load_strategy_class(file_path)
LoadFile ==
    /\ pc = "load_file"
    /\ ld' = [ld EXCEPT !.result = load_strategy_class(ld.file)]
    /\ pc' = "done"
    /\ UNCHANGED <<stub_module, report_lines, gen, stubVars, rng, strategy_class, ex, trace, test_result, scores,
                   runVars, scoreVars>>

LoadNext == LoadFile

SpecLoad == LoadInit /\ [][LoadNext]_vars

---------------------------------------------------------------------------
(* SpecApply: apply_test_data_to_stub on a Stub that already holds data       *)

ApplySymbols == {"TEST_SYMBOL", "AAPL"}

\* the cases applied: normal_values, price_none, all_none, rsi_over_100
ApplyCases == {common_cases[1], common_cases[2], common_cases[5], common_cases[16]}

\* what a key of the Stub holds before the application: nothing, None or 150
Unset == [t |-> "unset"]
HeldValues == {Unset, None, IntV(150)}

\* the Stub after the test setters that put the held values under the keys
\* around the ones an application writes: another period, another
\* granularity, another symbol, and a key the application overwrites
HoldMa(st, symbol, period, bar_type, v) ==
    IF v = Unset THEN st ELSE set_ma(st, symbol, period, bar_type, v)

HoldRsi(st, symbol, period, bar_type, v) ==
    IF v = Unset THEN st ELSE set_rsi(st, symbol, period, bar_type, v)

HoldPrice(st, symbol, v) == IF v = Unset THEN st ELSE set_price(st, symbol, v)

\* a Stub a unit has declared on, ordered and alerted on, holding a position
BusyStub ==
    alert(place_limit(set_position(declare_trig_symbol(
              declare_strategy_type(NewStub, SECURITY)), "TEST_SYMBOL", IntV(-100)),
          "TEST_SYMBOL", IntV(100), IntV(1), "BUY", "DAY", "RTH"), "signal")

ApplyInit ==
    /\ IdleExec /\ IdleRun /\ IdleScore /\ IdleGen /\ IdleLoad /\ IdleReport /\ RepositoryLayout
    /\ rng = 0
    /\ pc = "apply"
    /\ files = << >>
    /\ last_set = EmptyDict
    /\ last_op = [op |-> "init", dirty |-> FALSE]
    /\ nops = 0
    /\ \E base \in {NewStub, BusyStub} :
       \E v1 \in HeldValues, v2 \in HeldValues, v3 \in HeldValues, v4 \in HeldValues,
          v5 \in HeldValues, v6 \in HeldValues, v7 \in HeldValues :
         stub = HoldPrice(
                  HoldMa(
                    HoldRsi(
                      HoldRsi(
                        HoldMa(
                          HoldMa(
                            HoldMa(base, "TEST_SYMBOL", 14, "D1", v1),
                            "TEST_SYMBOL", 100, "H1", v2),
                          "TEST_SYMBOL", 100, "D1", v3),
                        "TEST_SYMBOL", 20, "D1", v4),
                      "TEST_SYMBOL", 14, "M1", v5),
                    "AAPL", 20, "D1", v6),
                  "AAPL", v7)

\* TestDataGenerator.apply_test_data_to_stub(stub, symbol, test_case)
ApplyCase ==
    /\ pc = "apply"
    /\ \E symbol \in ApplySymbols, test_case \in ApplyCases :
         /\ stub' = apply_test_data_to_stub(stub, symbol, test_case)
         /\ last_op' = [op |-> "apply", dirty |-> stub /= NewStub, before |-> stub,
                        symbol |-> symbol, test_case |-> test_case]
    /\ nops' = nops + 1
    /\ pc' = "applied"
    /\ UNCHANGED <<stub_module, report_lines, ld, gen, last_set, rng, strategy_class, ex, trace,
                   test_result, scores, runVars, scoreVars>>

ApplyNext == ApplyCase

SpecApply == ApplyInit /\ [][ApplyNext]_vars

---------------------------------------------------------------------------
(* SpecReport: one RobustnessTestResult that records any MaxOutcomes          *)
(* outcomes, passes and faults in any order, and is then reported             *)

MaxOutcomes == 12

\* the outcomes recorded so far
Outcomes == ex.boundary.pass_count + ex.boundary.fail_count

OutcomeCase == "case_" \o ToString(Outcomes + 1)

ReportInit ==
    /\ IdleStub /\ IdleRun /\ IdleScore /\ IdleGen /\ IdleLoad /\ IdleReport /\ RepositoryLayout
    /\ rng = 0
    /\ pc = "recording"
    /\ files = << >>
    /\ strategy_class = None
    /\ ex = [NewEx EXCEPT !.boundary = [NewResult EXCEPT !.test_count = MaxOutcomes]]
    /\ trace = << >>
    /\ test_result = None
    /\ scores = None

\* result.add_error(error_msg)
ResultAddError ==
    /\ pc = "recording"
    /\ Outcomes < MaxOutcomes
    /\ ex' = [ex EXCEPT !.boundary = add_error(@, ErrorMsg("boundary", "execution failed",
                                                           OutcomeCase, IntV(0)))]
    /\ trace' = Append(trace, Event("handle", "boundary", OutcomeCase, IntV(0), FALSE))
    /\ UNCHANGED <<stub_module, report_lines, ld, gen, stubVars, rng, pc, strategy_class,
                   test_result, scores, runVars, scoreVars>>

\* result.add_pass()
ResultAddPass ==
    /\ pc = "recording"
    /\ Outcomes < MaxOutcomes
    /\ ex' = [ex EXCEPT !.boundary = add_pass(@)]
    /\ trace' = Append(trace, Event("handle", "boundary", OutcomeCase, IntV(0), TRUE))
    /\ UNCHANGED <<stub_module, report_lines, ld, gen, stubVars, rng, pc, strategy_class,
                   test_result, scores, runVars, scoreVars>>

\* test_strategy_robustness, lines 213-218: the report of the result
ResultReport ==
    /\ pc = "recording"
    /\ test_result' = [boundary_tests |-> Report(ex.boundary)]
    /\ pc' = "reported"
    /\ UNCHANGED <<stub_module, report_lines, ld, gen, stubVars, rng, strategy_class, ex, trace,
                   scores, runVars, scoreVars>>

ReportNext ==
    \/ ResultAddError
    \/ ResultAddPass
    \/ ResultReport

SpecReport == ReportInit /\ [][ReportNext]_vars

---------------------------------------------------------------------------
(* Properties *)

\* test_strategy_robustness has returned both reports
ReportsReturned ==
    /\ pc \in {"score", "done"}
    /\ test_result /= None
    /\ test_result.boundary_tests /= None

Events(ev, phase) == SelectSeq(trace, LAMBDA e : e.ev = ev /\ e.phase = phase)
EventsOfCase(ev, phase, case_name) ==
    SelectSeq(trace, LAMBDA e : e.ev = ev /\ e.phase = phase /\ e.case = case_name)
AllOk(events) == \A i \in 1..Len(events) : events[i].ok
Failures(events) == SelectSeq(events, LAMBDA e : ~e.ok)

\* C1: in every report test_strategy_robustness returns, boundary and random,
\* pass_count + fail_count = test_count.
C1_CountsAddUp ==
    ReportsReturned =>
        /\ test_result.boundary_tests.pass_count + test_result.boundary_tests.fail_count
               = test_result.boundary_tests.test_count
        /\ test_result.random_tests.pass_count + test_result.random_tests.fail_count
               = test_result.random_tests.test_count

\* C2: when the constructor or initialize raises in step 1, the boundary and the
\* random phase are still attempted and the result carries both reports.
C2_InitFaultDoesNotAbort ==
    (pc \in {"score", "done"} /\ test_result /= None /\ ~trace[1].ok) =>
        /\ test_result.boundary_tests /= None
        /\ test_result.random_tests /= None
        /\ Events("setup", "boundary") /= << >>
        /\ Events("setup", "random") /= << >>

\* the boundary phase is over
BoundaryPhaseDone ==
    \/ pc \in {"random_start", "random_setup", "random_handle", "robust_return"}
    \/ ReportsReturned

\* the error message add_error got for a failed event of the boundary phase
BoundaryErrorOf(e) ==
    IF e.ev = "setup" THEN ErrorMsg("boundary", "setup failed", e.case, None)
    ELSE ErrorMsg("boundary", "execution failed", e.case, e.position)

\* C3: when the boundary phase is over, every boundary case was set up once, in
\* order; each case whose setup succeeded had handle_data invoked exactly three
\* times, holding positions 0, +100, -100 in that order, whatever raised before;
\* and each fault was recorded as one failure carrying its case name and position.
C3_BoundaryFaultsIsolated ==
    BoundaryPhaseDone =>
        LET setups == Events("setup", "boundary")
            failed == Failures(SelectSeq(trace, LAMBDA e : e.phase = "boundary"))
        IN  /\ Len(setups) = Len(ExecBoundaryCases)
            /\ \A i \in 1..Len(setups) :
                 LET handles == EventsOfCase("handle", "boundary", setups[i].case)
                 IN  /\ setups[i].case = ExecBoundaryCases[i].name
                     /\ IF setups[i].ok
                        THEN [j \in 1..Len(handles) |-> handles[j].position] = BoundaryPositions
                        ELSE handles = << >>
            /\ ex.boundary.fail_count = Len(failed)
            /\ ex.boundary.errors = [j \in 1..Len(failed) |-> BoundaryErrorOf(failed[j])]

\* handle_data raised at position 0 of the first case and passed later in that
\* case and in the next one
C3_Witness ==
    /\ BoundaryPhaseDone
    /\ LET handles == Events("handle", "boundary")
       IN  /\ Len(handles) = 3 * Len(ExecBoundaryCases)
           /\ ~handles[1].ok
           /\ handles[2].ok
           /\ handles[4].ok

\* C4: a file that fails to load is recorded and the loop goes on: when the run is
\* over the results hold one entry for each discovered file, in discovery order,
\* and while it runs one entry for each file already handled.
C4_OneResultPerFile ==
    /\ pc \in {"summary", "done"} =>
         /\ Len(results) = Len(files)
         /\ \A i \in 1..Len(files) : results[i].file = files[i].path
    /\ pc \notin {"start", "summary", "done", "idle"} =>
         /\ Len(results) = file_idx - 1
         /\ \A i \in 1..Len(results) : results[i].file = files[i].path

\* the first file failed to load and the second one was tested
C4_Witness ==
    /\ pc = "done"
    /\ Len(files) = 2
    /\ Len(results) = 2
    /\ results[1].status = "load_failed"
    /\ results[2].status \in {"passed", "failed"}

\* C5: a robustness result whose initialize_passed is false scores robustness 0.0.
C5_InitFailedScoresZero ==
    (sc_scores /= None /\ ~sc_result.initialize_passed) => sc_scores.robustness = 0

\* initialize failed and yet every counted test passed
C5_Witness ==
    /\ sc_scores /= None
    /\ ~sc_result.initialize_passed
    /\ sc_result.boundary_tests /= None
    /\ sc_result.boundary_tests.test_count > 0
    /\ sc_result.boundary_tests.fail_count = 0
    /\ sc_result.random_tests.test_count > 0
    /\ sc_result.random_tests.fail_count = 0
    /\ sc_scores.robustness = 0

\* the unit raised nowhere: not in a constructor, an initialize or a handle_data
NeverRaised == AllOk(trace)

\* C6: a unit that never raises gets robustness score 100.0.
C6_NeverRaisingScoresHundred ==
    (pc = "done" /\ NeverRaised) => scores.robustness = 10000

\* a full run with no fault: every boundary case at three positions, every random case
C6_Witness ==
    /\ pc = "done"
    /\ NeverRaised
    /\ Len(Events("handle", "boundary")) = 3 * NumBoundaryCases
    /\ Len(Events("handle", "random")) = RandomCount
    /\ test_result.boundary_tests.pass_count = 3 * test_result.boundary_tests.test_count
    /\ scores.robustness = 10000

InRange(x) == 0 <= x /\ x <= 10000

\* C7: every value of a ScoreRecord lies in [0, 100].
C7_ScoresInRange ==
    sc_scores /= None =>
        /\ InRange(sc_scores.robustness)
        /\ InRange(sc_scores.quality.structure)
        /\ InRange(sc_scores.quality.error_handling)
        /\ InRange(sc_scores.quality.documentation)
        /\ InRange(sc_scores.quality.complexity)
        /\ InRange(sc_scores.quality.best_practices)
        /\ InRange(sc_scores.quality.overall)
        /\ InRange(sc_scores.overall)

\* more passes than tests were counted, and the robustness score is 100.0
C7_Witness ==
    /\ sc_scores /= None
    /\ sc_result.initialize_passed
    /\ sc_result.boundary_tests.pass_count > sc_result.boundary_tests.test_count
    /\ sc_result.random_tests.pass_count = sc_result.random_tests.test_count
    /\ sc_result.random_tests.test_count > 0
    /\ sc_scores.robustness = 10000

\* C8: the grade of a ScoreRecord is the grade of the overall value stored in it
\* (rounded to 2 decimals): >= 90 A, >= 80 B, >= 70 C, >= 60 D, else F.
C8_GradeOfStoredOverall ==
    sc_scores /= None => sc_scores.grade = _assign_grade(10 * sc_scores.overall)

\* C9: every key set since the last reset() reads back exactly the value it was
\* last set to (absent, NaN, infinities and out-of-range numbers included): the
\* Stub neither clamps, validates nor replaces a value.
C9_PureEcho ==
    \A k \in DOMAIN last_set : Query(stub, k) = last_set[k]

\* an RSI of 150 was set and reads back, after a later operation on another key
C9_Witness ==
    /\ nops >= 2
    /\ last_op.op \in {"set_price", "set_ma", "set_position", "place_limit"}
    /\ \E s \in Symbols :
         /\ StubKey("rsi", s, 14, "D1") \in DOMAIN last_set
         /\ last_set[StubKey("rsi", s, 14, "D1")] = IntV(150)
         /\ rsi(stub, s, 14, "D1") = IntV(150)

\* C10: right after reset() the Stub holds what a freshly constructed Stub holds,
\* and every query answers as on a fresh Stub.
C10_ResetClearsAll ==
    last_op.op = "reset" =>
        /\ stub = NewStub
        /\ \A s \in Symbols :
             /\ current_price(stub, s) = current_price(NewStub, s)
             /\ position_holding_qty(stub, s) = position_holding_qty(NewStub, s)
             /\ \A p \in Periods, b \in Bars :
                  /\ ma(stub, s, p, b) = ma(NewStub, s, p, b)
                  /\ rsi(stub, s, p, b) = rsi(NewStub, s, p, b)

\* reset() was applied to a Stub that held something
C10_Witness == last_op.op = "reset" /\ last_op.dirty

\* the Stub that a fresh Stub becomes through initialize() and the data of a case
StubOfCase(ib, test_case) ==
    apply_test_data_to_stub(CallInitialize(strategy_class, ib, NewStub).stub,
                            ex.symbol, test_case)

\* C11: whenever the executor constructs a unit (step 1, test_initialize, each
\* boundary case, each random case) the Stub it finds equals a freshly built one,
\* and at the first handle_data of a case the Stub holds only what initialize(),
\* the data of that case and its position put there.
C11_StubFreshAtConstruct ==
    /\ ex.seen = None \/ ex.seen = NewStub
    /\ (pc = "boundary_handle" /\ ex.pos_idx = 1) =>
           \E ib \in strategy_class.unit.init :
               stub = StubOfCase(ib, ex.test_cases[ex.case_idx])
    /\ pc = "random_handle" =>
           \E ib \in strategy_class.unit.init, p \in 1..Len(RandomPositions) :
               stub = set_position(StubOfCase(ib, ex.test_cases[ex.case_idx]),
                                   ex.symbol, RandomPositions[p])

\* the second random case is about to run handle_data, after every boundary case
\* ran it three times
C11_Witness ==
    /\ pc = "random_handle"
    /\ ex.case_idx = 2
    /\ ex.seen = NewStub
    /\ Len(Events("handle", "boundary")) = 3 * NumBoundaryCases
    /\ AllOk(trace)
    /\ stub.orders = << >>

\* the price last set for a symbol since construction or the last reset()
PriceKey(s) == StubKey("price", s, 0, "")

\* C12 as stated: bid and ask are price x 0.999 and price x 1.001 when a price other
\* than None has been set for the symbol, and None otherwise: when the price was
\* set to None and when no price was set since construction or the last reset().
C12_BidAskAbsentUnlessSet ==
    \A s \in Symbols :
        IF PriceKey(s) \in DOMAIN last_set /\ last_set[PriceKey(s)] /= None
        THEN /\ bid(stub, s) = Times(last_set[PriceKey(s)], 999)
             /\ ask(stub, s) = Times(last_set[PriceKey(s)], 1001)
        ELSE /\ bid(stub, s) = None
             /\ ask(stub, s) = None

\* C12: bid and ask are price x 0.999 and price x 1.001 of the current price, which
\* is the price last set for the symbol or the default 100.0 when none was set since
\* construction or the last reset(); they are None only when the price was set to None.
C12_BidAskOfCurrentPrice ==
    \A s \in Symbols :
        LET price == IF PriceKey(s) \in DOMAIN last_set
                     THEN last_set[PriceKey(s)] ELSE DefaultPrice
        IN  IF price /= None
            THEN /\ bid(stub, s) = Times(price, 999)
                 /\ ask(stub, s) = Times(price, 1001)
            ELSE /\ bid(stub, s) = None
                 /\ ask(stub, s) = None

\* one symbol's price was set to None, another's is not set since construction or
\* the last reset(): the first has no bid, the second those of the default price
C12_Witness ==
    /\ last_op.op = "set_price"
    /\ last_op.dirty
    /\ PriceKey("AAPL") \in DOMAIN last_set
    /\ last_set[PriceKey("AAPL")] = None
    /\ bid(stub, "AAPL") = None
    /\ ask(stub, "AAPL") = None
    /\ PriceKey("TEST_SYMBOL") \notin DOMAIN last_set
    /\ bid(stub, "TEST_SYMBOL") = Num(99900, -3)
    /\ ask(stub, "TEST_SYMBOL") = Num(100100, -3)

\* C13: two calls of get_random_test_cases with the same count and the same seed
\* (not None) return the same sequence of cases, names and values, whatever was
\* drawn from the random source before and between them.
C13_SameSeedSameCases ==
    \A i, j \in 1..Len(GenCalls) :
        (/\ GenCalls[i].count = GenCalls[j].count
         /\ GenCalls[i].seed = GenCalls[j].seed
         /\ GenCalls[i].seed /= None)
            => GenCalls[i].cases = GenCalls[j].cases

\* two calls with seed 42 for MaxGenCount cases, a foreign draw between them, made
\* from different states of the source
C13_Witness ==
    /\ Len(gen.calls) = 3
    /\ gen.calls[1].ev = "call"
    /\ gen.calls[2].ev = "draw"
    /\ gen.calls[3].ev = "call"
    /\ gen.calls[1].seed = IntV(SeedOfRandomPhase)
    /\ gen.calls[3].seed = IntV(SeedOfRandomPhase)
    /\ gen.calls[1].count = MaxGenCount
    /\ gen.calls[3].count = MaxGenCount
    /\ gen.calls[1].from /= gen.calls[3].from
    /\ gen.calls[1].cases = gen.calls[3].cases

\* a number m * 10^e within [0, 100]
NumInZeroHundred(v) ==
    /\ v.m >= 0
    /\ CASE v.e > 2 -> v.m = 0
         [] v.e \in 0..2 -> v.m * (10 ^ v.e) <= 100
         [] v.e \in -6..-1 -> v.m <= 100 * (10 ^ (0 - v.e))
         [] OTHER -> TRUE

\* an RSI that is absent, NaN, an infinity, or a number within [0, 100]
RsiAdmissible(v) ==
    \/ v = None
    \/ v.t \in {"nan", "inf", "-inf"}
    \/ v.t = "num" /\ NumInZeroHundred(v)

\* C14: the cases get_boundary_test_cases keeps of the cross product S x S x S are
\* exactly the combinations whose RSI is absent, NaN, an infinity or a number within
\* [0, 100], in loop order: none with another RSI is kept, none with such an RSI is
\* discarded.
C14_BoundaryRsiFilter ==
    /\ \A k \in 1..Len(gen.test_cases) : RsiAdmissible(gen.test_cases[k].rsi)
    /\ gen.test_cases = SelectSeq([i \in 1..(gen.combo - 1) |-> Combination(i)],
                                  LAMBDA c : RsiAdmissible(c.rsi))

\* the loops are over: 1000 combinations seen, 600 kept, and the list returned
C14_Witness ==
    /\ gen.returned /= None
    /\ gen.combo = 1001
    /\ Len(gen.test_cases) = 600
    /\ gen.returned = get_boundary_test_cases

\* a recorded unit passed: its initialize succeeded and neither report counts a failure
UnitPassed(r) ==
    /\ r.status \notin {"load_failed", "class_not_found"}
    /\ r.initialize_passed
    /\ r.boundary_tests.fail_count = 0
    /\ r.random_tests.fail_count = 0

\* C15: when the process ends its exit status is 0 if no unit failed its overall
\* pass/fail determination, and 1 otherwise.
C15_ExitStatus ==
    pc = "done" =>
        exit_status = IF \A i \in 1..Len(results) : UnitPassed(results[i]) THEN 0 ELSE 1

\* the types of the loaded namespace that are defined in the file and subclass
\* StrategyBase, and the two hooks
MarkedTypes == SelectSeq(ld.file.classes, LAMBDA c : c.local /\ c.strategy_base)
Hooks == {"initialize", "handle_data"}
Loaded == ld.result /= None /\ ld.result.class /= None

\* C16 as stated: load_strategy_class returns a type only if the namespace holds
\* exactly one candidate type, and that type has both hooks, subclasses StrategyBase,
\* is defined in the loaded file and is named Strategy.
C16_LoadsOnlySoleHookedStrategy ==
    Loaded =>
        /\ Len(MarkedTypes) = 1
        /\ ld.result.class = MarkedTypes[1]
        /\ Hooks \subseteq ld.result.class.methods
        /\ ld.result.class.name = "Strategy"

\* C16: load_strategy_class returns a type exactly when executing the file did not
\* raise and the namespace holds a type that subclasses StrategyBase, is defined in
\* the loaded file and is named Strategy; it returns that type, with no error,
\* whether or not it has the hooks and whatever other candidates there are.
C16_LoadsMarkedStrategy ==
    ld.result /= None =>
        /\ Loaded <=> /\ ~ld.file.exec_raises
                      /\ \E i \in 1..Len(MarkedTypes) : MarkedTypes[i].name = "Strategy"
        /\ Loaded => /\ \E i \in 1..Len(MarkedTypes) : MarkedTypes[i] = ld.result.class
                     /\ ld.result.class.name = "Strategy"
                     /\ ld.result.error = None

\* a Strategy without hooks was returned from a namespace with two more candidates
C16_Witness ==
    /\ Loaded
    /\ Len(MarkedTypes) = 3
    /\ ld.result.class.methods = {}
    /\ MarkedTypes[3].name = "Trend"

\* C17: load_strategy_class returns no type and a classified error when: executing
\* the file raises (the error wraps the fault's message); the namespace holds no
\* candidate type (the error says no strategy class was found); the namespace holds
\* one candidate whose name is not Strategy (the error names that type).
C17_LoadFailuresClassified ==
    ld.result /= None =>
        /\ ld.file.exec_raises =>
               ld.result = LoadResult(None, None, [t |-> "error", kind |-> "Loading failed",
                                                   found |-> ld.file.fault])
        /\ (~ld.file.exec_raises /\ MarkedTypes = << >>) =>
               /\ ld.result.class = None
               /\ ld.result.module_name = None
               /\ ld.result.error.kind \in {"No strategy class found",
                                            "Strategy class not found, found class"}
               /\ (\A i \in 1..Len(ld.file.classes) : ~ld.file.classes[i].local)
                      => ld.result.error.kind = "No strategy class found"
        /\ (~ld.file.exec_raises /\ Len(MarkedTypes) = 1 /\ MarkedTypes[1].name /= "Strategy") =>
               ld.result = LoadResult(None, None,
                               [t |-> "error", kind |-> "Found class name is not 'Strategy'",
                                found |-> MarkedTypes[1].name])

\* the only candidate is named Trend, next to an imported class named Strategy
C17_Witness ==
    /\ ld.result /= None
    /\ ~ld.file.exec_raises
    /\ Len(MarkedTypes) = 1
    /\ MarkedTypes[1].name = "Trend"
    /\ \E i \in 1..Len(ld.file.classes) :
           ld.file.classes[i].name = "Strategy" /\ ~ld.file.classes[i].local
    /\ ld.result.class = None
    /\ ld.result.error.found = "Trend"

\* C18: when the source text does not parse, the five quality sub-scores and the
\* quality overall are 0, the robustness score is the one the same robustness result
\* gets with a source that parses, and the combined overall is robustness x 0.4
\* rounded to 2 decimals.
C18_ParseFailureZeroQuality ==
    (sc_scores /= None /\ ~sc_source.parse_ok) =>
        /\ sc_scores.quality = [structure |-> 0, error_handling |-> 0, documentation |-> 0,
                                complexity |-> 0, best_practices |-> 0, overall |-> 0]
        /\ sc_scores.robustness = score_strategy(sc_class, GuardedSource, sc_result).robustness
        /\ sc_scores.overall = RoundDiv(4 * sc_scores.robustness, 10)

\* an unparsable text with a robustness score of 35.24: overall 14.1
C18_Witness ==
    /\ sc_scores /= None
    /\ ~sc_source.parse_ok
    /\ sc_result.initialize_passed
    /\ sc_scores.robustness = 3524
    /\ sc_scores.quality.overall = 0
    /\ sc_scores.overall = 1410

\* a scored source that parsed, of a class with neither hook
ScoredWithoutHooks ==
    /\ sc_scores /= None
    /\ sc_source.parse_ok
    /\ sc_class.methods \cap Hooks = {}

\* C19 as stated: a unit whose type has neither initialize nor handle_data gets
\* structure sub-score exactly 50, the base with no bonus.
C19_NoHooksStructureFifty ==
    ScoredWithoutHooks => sc_scores.quality.structure = 5000

\* C19: a unit whose type has neither initialize nor handle_data gets no hook bonus:
\* its structure sub-score is the base 50, plus 10 when the source holds a class
\* definition, plus 10 when the type has custom_indicator.
C19_NoHooksStructure ==
    ScoredWithoutHooks =>
        sc_scores.quality.structure =
            5000 + (IF sc_source.class_defs > 0 THEN 1000 ELSE 0)
                 + (IF "custom_indicator" \in sc_class.methods THEN 1000 ELSE 0)

\* a class with no method at all, defined by a class statement: structure 60
C19_Witness ==
    /\ ScoredWithoutHooks
    /\ sc_class.methods = {}
    /\ sc_source.class_defs = 1
    /\ sc_scores.quality.structure = 6000

\* the return statements that are nested inside a conditional
GuardedReturns(returns) == Len(SelectSeq(returns, LAMBDA depth : depth > 0))

\* C20: the best-practices sub-score is base 50, -2 per magic number (at most -20),
\* +10 for an underscore, +10 if there is a return, and +5 once for each return
\* nested inside a conditional (at most +20), within [0, 100]; so one guarded return,
\* an underscore and no magic number give 75 at any nesting depth.
C20_FivePerGuardedReturn ==
    (sc_scores /= None /\ sc_source.parse_ok) =>
        sc_scores.quality.best_practices =
            Max(0, Min(5000 - Min(sc_source.magic_numbers * 200, 2000)
                            + (IF sc_source.underscore THEN 1000 ELSE 0)
                            + (IF Len(sc_source.returns) > 0 THEN 1000 ELSE 0)
                            + Min(GuardedReturns(sc_source.returns) * 500, 2000),
                       10000))

---------------------------------------------------------------------------
\* the groups that hold the result of the file at path
GroupsHolding(path) ==
    {m \in DOMAIN model_results :
        \E i \in 1..Len(model_results[m]) : model_results[m][i].file = path}

\* C21: when the summary is written, every scored unit is held by exactly one
\* of the groups gemini, gpt, deepseek, unknown, and the per-group summaries
\* cover every group that holds a scored unit: the unit counts of the
\* reported groups add up to the number of scored units.
C21_GroupsCoverScoredUnits ==
    report_lines /= None =>
        LET scored == Scored(results)
        IN  /\ DOMAIN model_results = ModelNames
            /\ \A i \in 1..Len(scored) : Cardinality(GroupsHolding(scored[i].file)) = 1
            /\ SumSeq([i \in 1..Len(report_lines.models) |-> report_lines.models[i].total])
                   = Len(scored)

---------------------------------------------------------------------------
\* the outcomes (passes and failures) one case added to the report of its phase
OutcomesOfCase(phase, case_name) ==
    Len(Failures(EventsOfCase("setup", phase, case_name)))
        + Len(EventsOfCase("handle", phase, case_name))

\* C22: the boundary report's test_count is the number of boundary cases, not of
\* case x position pairs; a boundary case adds to pass_count + fail_count three
\* outcomes when its setup succeeds and one failure when its setup raises, so
\* test_count <= pass_count + fail_count <= 3 * test_count.  The random report's
\* test_count is the number of random cases and each random case adds one outcome.
C22_TestCountCountsCases ==
    ReportsReturned =>
        LET bt == test_result.boundary_tests
            rt == test_result.random_tests
            bsetups == Events("setup", "boundary")
            rsetups == Events("setup", "random")
        IN  /\ bt.test_count = Len(ExecBoundaryCases)
            /\ Len(bsetups) = bt.test_count
            /\ \A i \in 1..Len(bsetups) :
                  OutcomesOfCase("boundary", bsetups[i].case)
                      = IF bsetups[i].ok THEN 3 ELSE 1
            /\ bt.pass_count + bt.fail_count
                   = SumSeq([i \in 1..Len(bsetups) |->
                                OutcomesOfCase("boundary", bsetups[i].case)])
            /\ bt.test_count <= bt.pass_count + bt.fail_count
            /\ bt.pass_count + bt.fail_count <= 3 * bt.test_count
            /\ rt.test_count = RandomCount
            /\ Len(rsetups) = rt.test_count
            /\ \A i \in 1..Len(rsetups) : OutcomesOfCase("random", rsetups[i].case) = 1
            /\ rt.pass_count + rt.fail_count = rt.test_count

\* one boundary case whose setup raised and one that ran its three positions:
\* four outcomes for a test_count of two
C22_Witness ==
    /\ ReportsReturned
    /\ Len(Failures(Events("setup", "boundary"))) = 1
    /\ test_result.boundary_tests.test_count = 2
    /\ test_result.boundary_tests.pass_count + test_result.boundary_tests.fail_count = 4
    /\ test_result.random_tests.pass_count = 1
    /\ test_result.random_tests.fail_count = 1

---------------------------------------------------------------------------
\* the periods, granularities and symbols queried around an application
QueriedPeriods == {1, 10, 14, 20, 50, 100, 200, 2000}
QueriedBars == {"D1", "H1", "M1"}
QueriedSymbols == {"TEST_SYMBOL", "AAPL", "AAPL_ma_1"}

\* C23: applying a case to the Stub for a symbol sets the price, the daily
\* moving average of the periods 1, 20, 50, 100, 200 and the daily RSI of period
\* 14 of that symbol to the case's values and changes nothing else: every other
\* moving-average, RSI and price query, the positions, the orders, the alerts
\* and the declarations answer as before the application.
C23_ApplyFrame ==
    last_op.op = "apply" =>
        LET before == last_op.before
            symbol == last_op.symbol
            test_case == last_op.test_case
            MaSet(s, p, b) == s = symbol /\ b = "D1" /\ p \in {1, 20, 50, 100, 200}
            RsiSet(s, p, b) == s = symbol /\ b = "D1" /\ p = 14
        IN  /\ current_price(stub, symbol) = test_case.price
            /\ \A s \in QueriedSymbols, p \in QueriedPeriods, b \in QueriedBars :
                  /\ ma(stub, s, p, b) = IF MaSet(s, p, b) THEN test_case.ma
                                         ELSE ma(before, s, p, b)
                  /\ rsi(stub, s, p, b) = IF RsiSet(s, p, b) THEN test_case.rsi
                                          ELSE rsi(before, s, p, b)
            /\ \A s \in QueriedSymbols \ {symbol} :
                  current_price(stub, s) = current_price(before, s)
            /\ Cardinality(DOMAIN stub.indicator_data
                               \ DOMAIN before.indicator_data) <= 6
            /\ stub.position_data = before.position_data
            /\ stub.orders = before.orders
            /\ stub.alerts = before.alerts
            /\ stub.declared_strategy_type = before.declared_strategy_type
            /\ stub.declared_symbols = before.declared_symbols
            /\ stub.variables = before.variables

\* a case applied to a Stub with an order, an alert, a declaration and a
\* position, holding 150 as the moving average of period 14, of period 100 by
\* the hour and of period 100 by the day: only the last one is overwritten
C23_Witness ==
    /\ last_op.op = "apply"
    /\ last_op.symbol = "TEST_SYMBOL"
    /\ last_op.test_case.name = "normal_values"
    /\ last_op.before.orders /= << >>
    /\ ma(last_op.before, "TEST_SYMBOL", 14, "D1") = IntV(150)
    /\ ma(last_op.before, "TEST_SYMBOL", 100, "H1") = IntV(150)
    /\ ma(last_op.before, "TEST_SYMBOL", 100, "D1") = IntV(150)
    /\ ma(stub, "TEST_SYMBOL", 14, "D1") = IntV(150)
    /\ ma(stub, "TEST_SYMBOL", 100, "H1") = IntV(150)
    /\ ma(stub, "TEST_SYMBOL", 100, "D1") = IntV(95)

---------------------------------------------------------------------------
\* the cases the random phase generates from its seed, and the source after them
SeededCases == get_random_test_cases(RandomCount, IntV(SeedOfRandomPhase), 0)

RECURSIVE RngAfter(_, _)
RngAfter(x, k) == IF k = 0 THEN x ELSE RngAfter(RngNext(x), k - 1)

\* the k-th position drawn after the cases were generated
DrawnPosition(k) == RandomChoice(RngAfter(SeededCases.rng, k), RandomPositions)

RandomPhaseEntered ==
    \/ pc \in {"random_setup", "random_handle", "robust_return"}
    \/ ReportsReturned

\* C24 as stated: every random case gets exactly one position drawn from the
\* seeded source and one handle_data call, so the (case, position) pairs of a
\* returned random phase are fixed by the seed and the count: the i-th case
\* with the i-th draw.
C24_OnePositionPerCase ==
    ReportsReturned =>
        LET handles == Events("handle", "random")
        IN  /\ Len(handles) = RandomCount
            /\ \A i \in 1..Len(handles) :
                  /\ handles[i].case = SeededCases.cases[i].name
                  /\ handles[i].position = DrawnPosition(i)

\* C24: the random phase runs the cases its seed generates, in order; a case
\* whose setup succeeds gets one position, the next draw of the seeded source
\* out of 0, 50, 100, 200, -50, and one handle_data call; a case whose setup
\* raises gets no position, no call and consumes no draw.  So the (case,
\* position) pairs are fixed by the seed, the count and the cases whose setup
\* succeeded.
C24_PositionPerSetUpCase ==
    RandomPhaseEntered =>
        LET setups == Events("setup", "random")
            handles == Events("handle", "random")
            set_up == SelectSeq(setups, LAMBDA e : e.ok)
        IN  /\ ex.test_cases = SeededCases.cases
            /\ \A i \in 1..Len(setups) : setups[i].case = SeededCases.cases[i].name
            /\ Len(handles) = IF pc = "random_handle" THEN Len(set_up) - 1 ELSE Len(set_up)
            /\ \A j \in 1..Len(handles) :
                  /\ handles[j].case = set_up[j].case
                  /\ handles[j].position = DrawnPosition(j)
                  /\ InSeq(handles[j].position, RandomPositions)
            /\ rng = RngAfter(SeededCases.rng, Len(set_up))
            /\ pc = "random_handle" =>
                  position_holding_qty(stub, ex.symbol) = DrawnPosition(Len(set_up))

\* the setup of the first random case raised and the second case ran: it holds
\* the first draw, and the source stands one draw after the cases, not two
C24_Witness ==
    /\ ReportsReturned
    /\ LET setups == Events("setup", "random")
           handles == Events("handle", "random")
       IN  /\ ~setups[1].ok
           /\ setups[2].ok
           /\ Len(handles) = 1
           /\ handles[1].case = SeededCases.cases[2].name
           /\ handles[1].position = DrawnPosition(1)
           /\ rng = RngAfter(SeededCases.rng, 1)
           /\ rng /= RngAfter(SeededCases.rng, 2)

---------------------------------------------------------------------------
\* C25: a report carries as samples exactly the first min(fail_count, 10)
\* fault messages of its result, in the order the faults occurred, while
\* fail_count counts every recorded fault.
C25_FirstTenSamples ==
    pc = "reported" =>
        LET faults == Failures(trace)
            bt == test_result.boundary_tests
        IN  /\ bt.fail_count = Len(faults)
            /\ Len(bt.errors) = IF bt.fail_count <= 10 THEN bt.fail_count ELSE 10
            /\ \A i \in 1..Len(bt.errors) : bt.errors[i] = BoundaryErrorOf(faults[i])

\* twelve outcomes, eleven of them faults: ten samples, the eleventh left out
C25_Witness ==
    /\ pc = "reported"
    /\ test_result.boundary_tests.fail_count = 11
    /\ test_result.boundary_tests.pass_count = 1
    /\ Len(test_result.boundary_tests.errors) = 10
    /\ trace[1].ok
    /\ test_result.boundary_tests.errors[10].case = "case_11"

---------------------------------------------------------------------------
\* the runner has just finished a unit: scored, recorded, reset_stub() called
UnitFinished ==
    /\ pc \in {"load", "summary"}
    /\ file_idx > 1
    /\ "scores" \in DOMAIN results[file_idx - 1]

\* C26: the Stub the runner resets after a unit is the Stub the loader bound
\* into the unit and the executor configured, so when the runner has finished a
\* unit the Stub is empty.
C26_StubEmptyAfterUnit ==
    UnitFinished =>
        /\ RunnerStubInstance = stub
        /\ stub = NewStub

---------------------------------------------------------------------------
\* C27: a robustness score of 100.0 goes only to a unit that recorded no
\* fault: when the score of a result of test_strategy_robustness is 100.0,
\* fail_count is 0 in the boundary report and in the random report.
C27_HundredOnlyWithoutFaults ==
    (ReportsReturned /\ scores /= None /\ scores.robustness = 10000) =>
        /\ test_result.boundary_tests.fail_count = 0
        /\ test_result.random_tests.fail_count = 0

---------------------------------------------------------------------------
\* C28: load_strategy_class returns a type or an error message, never both and
\* never neither; so the runner never takes its class_not_found branch and
\* records every file that fails to load as load_failed.
C28_TypeOrError ==
    \A i \in 1..Len(results) :
        LET loaded == load_strategy_class(files[i])
        IN  /\ (loaded.class = None) <=> (loaded.error /= None)
            /\ results[i].status /= "class_not_found"
            /\ loaded.class = None =>
                  /\ results[i].status = "load_failed"
                  /\ results[i].error = loaded.error
            /\ loaded.class /= None => results[i].status \in {"passed", "failed"}

\* a run over a file whose execution raised and a file without a strategy
\* class, both recorded as load_failed
C28_Witness ==
    /\ pc = "done"
    /\ Len(results) = 2
    /\ results[1].status = "load_failed"
    /\ results[1].error.kind = "Loading failed"
    /\ results[2].status = "load_failed"
    /\ results[2].error.kind = "No strategy class found"

---------------------------------------------------------------------------
\* the file at i holds a unit whose initialize raises on every invocation
InitAlwaysRaises(i) ==
    LET loaded == load_strategy_class(files[i])
    IN  /\ loaded.class /= None
        /\ loaded.class.unit.ctor = {"ok"}
        /\ loaded.class.unit.init \subseteq {"raise", "declare_raise"}

RowsOfFile(path) == SelectSeq(csv_rows, LAMBDA row : row.file = path)

\* C29: a unit whose initialize raises in step 1 comes back without reports,
\* and run_all_tests completes it: robustness score 0.0, determination
\* "failed", a ScoreRecord and one tabular row, counted as failed, and the loop
\* goes on with the next file.
C29_InitRaiseCompletes ==
    \A i \in 1..Len(results) :
        InitAlwaysRaises(i) =>
            /\ results[i].file = files[i].path
            /\ ~results[i].initialize_passed
            /\ results[i].boundary_tests = None
            /\ results[i].random_tests = None
            /\ results[i].status = "failed"
            /\ results[i].scores.robustness = 0
            /\ RowsOfFile(files[i].path)
                   = << CsvRow(files[i], get_model_from_path(files[i]), results[i].scores) >>
            /\ total_failed >= 1
            /\ pc \in {"summary", "done"} => Len(results) = Len(files)
            /\ (i = Len(results) /\ i < Len(files)) => file_idx = i + 1

\* a run that is over: the first unit's initialize raised in step 1, the
\* second unit was tested and passed
C29_Witness ==
    /\ pc = "done"
    /\ Len(results) = 2
    /\ InitAlwaysRaises(1)
    /\ results[1].status = "failed"
    /\ results[1].scores.robustness = 0
    /\ results[2].status = "passed"
    /\ Len(csv_rows) = 2

---------------------------------------------------------------------------
\* the indices of the discovered files that load, in discovery order
LoadedFiles ==
    SelectSeq([i \in 1..Len(files) |-> i],
              LAMBDA i : load_strategy_class(files[i]).class /= None)

\* C30: when run_all_tests is through the files, total_passed + total_failed is
\* the number of discovered files, each file counted once: a file that fails to
\* load counts as failed, without a pass/fail determination, and forces exit
\* status 1; the tabular rows are the files that loaded, in discovery order.
C30_TotalsCoverFiles ==
    pc \in {"summary", "done"} =>
        LET load_failed == WithStatus(results, "load_failed")
        IN  /\ total_passed + total_failed = Len(files)
            /\ total_passed = Len(WithStatus(results, "passed"))
            /\ total_failed = Len(WithStatus(results, "failed")) + Len(load_failed)
            /\ Len(load_failed) = Len(files) - Len(LoadedFiles)
            /\ \A i \in 1..Len(results) :
                  load_strategy_class(files[i]).class = None =>
                      /\ results[i].status = "load_failed"
                      /\ "scores" \notin DOMAIN results[i]
            /\ (pc = "done" /\ load_failed /= << >>) => exit_status = 1
            /\ [j \in 1..Len(csv_rows) |-> csv_rows[j].file]
                   = [j \in 1..Len(LoadedFiles) |-> files[LoadedFiles[j]].path]

\* a finished run over two files: the first fails to load, the second passes;
\* one passed, one failed, one row, exit status 1
C30_Witness ==
    /\ pc = "done"
    /\ Len(files) = 2
    /\ results[1].status = "load_failed"
    /\ results[2].status = "passed"
    /\ total_passed = 1
    /\ total_failed = 1
    /\ Len(csv_rows) = 1
    /\ exit_status = 1
====
